---------------------------- MODULE Spec2Model ----------------------------
(***************************************************************************)
(* myrandr: a terminal front-end for xrandr.                               *)
(*                                                                         *)
(* The module models                                                       *)
(*   - parse_xrandr_output (src/README.md 116-239) at the level of the     *)
(*     characters of the report: fgets into a 256-byte buffer, strstr,     *)
(*     sscanf and strtod are operators over sequences of one-character     *)
(*     strings;                                                            *)
(*   - setup_display_data and the two main loops of src/tui.c (the first   *)
(*     variant, lines 1-511, without the power and position keys; the      *)
(*     second, lines 513-1228, with them).                                 *)
(***************************************************************************)
EXTENDS Integers, Sequences, FiniteSets, TLC

(***************************************************************************)
(* Characters and the C library                                            *)
(***************************************************************************)

\* isspace() in the C locale, for the characters a report holds.
IsSpace(c) == c \in {" ", "\t", "\n"}

IsDigit(c) == c \in {"0", "1", "2", "3", "4", "5", "6", "7", "8", "9"}

DigitVal(c) ==
    CASE c = "0" -> 0 [] c = "1" -> 1 [] c = "2" -> 2 [] c = "3" -> 3
      [] c = "4" -> 4 [] c = "5" -> 5 [] c = "6" -> 6 [] c = "7" -> 7
      [] c = "8" -> 8 [] c = "9" -> 9

Min(a, b) == IF a < b THEN a ELSE b

\* The first position j >= i of s that holds no white space (Len(s)+1: the
\* terminating NUL).
SkipWs(s, i) ==
    CHOOSE j \in i..(Len(s) + 1) :
        /\ (j = Len(s) + 1 \/ ~IsSpace(s[j]))
        /\ \A k \in i..(j - 1) : IsSpace(s[k])

\* The first position j >= i of s that holds no digit.
SkipDigits(s, i) ==
    CHOOSE j \in i..(Len(s) + 1) :
        /\ (j = Len(s) + 1 \/ ~IsDigit(s[j]))
        /\ \A k \in i..(j - 1) : IsDigit(s[k])

\* The first position j >= i of s that holds white space (end of a %s token).
SkipNonWs(s, i) ==
    CHOOSE j \in i..(Len(s) + 1) :
        /\ (j = Len(s) + 1 \/ IsSpace(s[j]))
        /\ \A k \in i..(j - 1) : ~IsSpace(s[k])

RECURSIVE DigitsVal(_, _, _)
\* The value of the decimal digits s[a..b] (0 when a > b).
DigitsVal(s, a, b) ==
    IF a > b THEN 0 ELSE DigitsVal(s, a, b - 1) * 10 + DigitVal(s[b])

RECURSIVE Pow10(_)
Pow10(n) == IF n = 0 THEN 1 ELSE 10 * Pow10(n - 1)

\* strstr(hay, needle) != NULL
StrStr(hay, needle) ==
    \E i \in 1..(Len(hay) - Len(needle) + 1) :
        SubSeq(hay, i, i + Len(needle) - 1) = needle

(***************************************************************************)
(* sscanf.  A format is a sequence of directives: "ws" (white space in the *)
(* format: skips any white space of the input), "lit" (one ordinary        *)
(* character, which must match), "s" (%s), "d" (%d) and "n" (%n).  The     *)
(* result holds the values assigned, in order, and the count %n stored     *)
(* (-1: %n was not reached, the variable keeps its uninitialized value).   *)
(***************************************************************************)
Ws == [d |-> "ws", c |-> ""]
PctS == [d |-> "s", c |-> ""]
PctD == [d |-> "d", c |-> ""]
PctN == [d |-> "n", c |-> ""]
Lit(w) == [i \in 1..Len(w) |-> [d |-> "lit", c |-> w[i]]]

\* %d with the digits s[k..e-1] found after the sign.
ScanIntDigits(s, i, neg, k, e) ==
    IF e = k THEN [ok |-> FALSE, val |-> 0, next |-> i]
    ELSE [ok |-> TRUE,
          val |-> IF neg THEN 0 - DigitsVal(s, k, e - 1)
                         ELSE DigitsVal(s, k, e - 1),
          next |-> e]

\* %d from the digits at k on.
ScanIntFrom(s, i, neg, k) == ScanIntDigits(s, i, neg, k, SkipDigits(s, k))

\* %d with the white space skipped up to j: an optional sign.
ScanIntSigned(s, i, j) ==
    ScanIntFrom(s, i, j <= Len(s) /\ s[j] = "-",
                IF j <= Len(s) /\ s[j] \in {"-", "+"} THEN j + 1 ELSE j)

\* %d: white space, an optional sign, at least one digit.
ScanInt(s, i) == ScanIntSigned(s, i, SkipWs(s, i))

\* %s with the token s[j..e-1] found.
ScanStrToken(s, i, j, e) ==
    IF e = j THEN [ok |-> FALSE, val |-> <<>>, next |-> i]
    ELSE [ok |-> TRUE, val |-> SubSeq(s, j, e - 1), next |-> e]

\* %s with the white space skipped up to j.
ScanStrFrom(s, i, j) == ScanStrToken(s, i, j, SkipNonWs(s, j))

\* %s: white space, then the characters up to the next white space.
ScanStr(s, i) == ScanStrFrom(s, i, SkipWs(s, i))

RECURSIVE SscanfFrom(_, _, _, _, _, _)
RECURSIVE SscanfAssign(_, _, _, _, _, _)
\* sscanf from position i of s and directive f of fmt.
SscanfFrom(s, i, fmt, f, vals, n) ==
    IF f > Len(fmt) THEN [vals |-> vals, n |-> n]
    ELSE LET dir == fmt[f] IN
      CASE dir.d = "ws" -> SscanfFrom(s, SkipWs(s, i), fmt, f + 1, vals, n)
        [] dir.d = "lit" ->
             IF i <= Len(s) /\ s[i] = dir.c
             THEN SscanfFrom(s, i + 1, fmt, f + 1, vals, n)
             ELSE [vals |-> vals, n |-> n]
        [] dir.d = "s" -> SscanfAssign(s, fmt, f, vals, n, ScanStr(s, i))
        [] dir.d = "d" -> SscanfAssign(s, fmt, f, vals, n, ScanInt(s, i))
        [] dir.d = "n" -> SscanfFrom(s, i, fmt, f + 1, vals, i - 1)

\* A conversion r: its value is assigned and the scan goes on, or the scan
\* stops at the first conversion that fails.
SscanfAssign(s, fmt, f, vals, n, r) ==
    IF r.ok THEN SscanfFrom(s, r.next, fmt, f + 1, Append(vals, r.val), n)
    ELSE [vals |-> vals, n |-> n]

Sscanf(s, fmt) == SscanfFrom(s, 1, fmt, 1, <<>>, -1)

(***************************************************************************)
(* strtod, for the forms [ws][sign]digits[.digits], [sign]inf,            *)
(* [sign]infinity and [sign]nan (hexadecimal forms and exponents are not   *)
(* modelled): the value is the rational num / 10^dec with no trailing zero *)
(* digit in num, so that "60.0" and "60.00" are the same number; dec = -1  *)
(* marks a value that is no number of the line (num 0: NaN, 1 and -1: the  *)
(* infinities).  next = i: no conversion.                                  *)
(***************************************************************************)
RECURSIVE NormRate(_, _)
NormRate(num, dec) ==
    IF dec > 0 /\ num % 10 = 0 THEN NormRate(num \div 10, dec - 1)
    ELSE [num |-> num, dec |-> dec]

\* The result for the integer digits s[k..ie-1] and the fraction digits
\* s[ie+1..fe-1] (dot: a '.' stands at ie).
StrtodValue(s, i, neg, k, ie, dot, fe) ==
    LET nfrac == IF dot THEN fe - (ie + 1) ELSE 0
        mag == DigitsVal(s, k, ie - 1) * Pow10(nfrac)
                 + (IF dot THEN DigitsVal(s, ie + 1, fe - 1) ELSE 0)
    IN  IF (ie - k) + nfrac = 0 THEN [val |-> NormRate(0, 0), next |-> i]
        ELSE [val |-> NormRate(IF neg THEN 0 - mag ELSE mag, nfrac),
              next |-> fe]

\* The optional fraction after the integer digits s[k..ie-1].
StrtodFraction(s, i, neg, k, ie) ==
    StrtodValue(s, i, neg, k, ie, ie <= Len(s) /\ s[ie] = ".",
                IF ie <= Len(s) /\ s[ie] = "." THEN SkipDigits(s, ie + 1)
                ELSE ie)

\* tolower, for the letters of the words strtod knows.
ToLower(c) ==
    CASE c = "I" -> "i" [] c = "N" -> "n" [] c = "F" -> "f" [] c = "A" -> "a"
      [] c = "T" -> "t" [] c = "Y" -> "y" [] OTHER -> c

\* The word w stands at s[k..], in either case.
WordAt(s, k, w) ==
    /\ k + Len(w) - 1 <= Len(s)
    /\ \A t \in 1..Len(w) : ToLower(s[k + t - 1]) = w[t]

W_inf == <<"i", "n", "f">>
W_infinity == <<"i", "n", "f", "i", "n", "i", "t", "y">>
W_nan == <<"n", "a", "n">>

NotANumber == [num |-> 0, dec |-> 0 - 1]
Infinite(neg) == [num |-> IF neg THEN 0 - 1 ELSE 1, dec |-> 0 - 1]

\* The words or the digits from k on.
StrtodFrom(s, i, neg, k) ==
    IF WordAt(s, k, W_infinity)
    THEN [val |-> Infinite(neg), next |-> k + Len(W_infinity)]
    ELSE IF WordAt(s, k, W_inf)
    THEN [val |-> Infinite(neg), next |-> k + Len(W_inf)]
    ELSE IF WordAt(s, k, W_nan)
    THEN [val |-> NotANumber, next |-> k + Len(W_nan)]
    ELSE StrtodFraction(s, i, neg, k, SkipDigits(s, k))

\* The optional sign at j.
StrtodSigned(s, i, j) ==
    StrtodFrom(s, i, j <= Len(s) /\ s[j] = "-",
               IF j <= Len(s) /\ s[j] \in {"-", "+"} THEN j + 1 ELSE j)

Strtod(s, i) == StrtodSigned(s, i, SkipWs(s, i))

(***************************************************************************)
(* parse_xrandr_output                                                     *)
(***************************************************************************)

\* char line[256]
LineBufSize == 256

\* The literals of the parser.
S_connected == <<" ", "c", "o", "n", "n", "e", "c", "t", "e", "d">>
S_primary == <<" ", "p", "r", "i", "m", "a", "r", "y">>
W_connected == <<"c", "o", "n", "n", "e", "c", "t", "e", "d">>
W_disconnected == <<"d", "i", "s">> \o W_connected
W_primary == <<"p", "r", "i", "m", "a", "r", "y">>

\* "%dx%d+%d+%d"
FmtGeometry ==
    <<PctD>> \o Lit(<<"x">>) \o <<PctD>> \o Lit(<<"+">>) \o <<PctD>>
        \o Lit(<<"+">>) \o <<PctD>>
\* "%s disconnected"
FmtDisconnected == <<PctS, Ws>> \o Lit(W_disconnected)
\* "%s connected primary %dx%d+%d+%d"
FmtPrimary ==
    <<PctS, Ws>> \o Lit(W_connected) \o <<Ws>> \o Lit(W_primary) \o <<Ws>>
        \o FmtGeometry
\* "%s connected %dx%d+%d+%d"
FmtConnected == <<PctS, Ws>> \o Lit(W_connected) \o <<Ws>> \o FmtGeometry
\* " %dx%d %n"
FmtMode == <<Ws, PctD>> \o Lit(<<"x">>) \o <<PctD, Ws, PctN>>

\* fgets(line, sizeof(line), fp) at position pos of the tool's output: the
\* position of the last character stored, which is the first newline or the
\* 255th character, whichever comes first.
FgetsEnd(text, pos) ==
    LET lim == Min(Len(text), pos + LineBufSize - 2)
    IN  CHOOSE j \in pos..lim :
            /\ (j = lim \/ text[j] = "\n")
            /\ \A k \in pos..(j - 1) : text[k] # "\n"

RECURSIVE ReadLines(_, _)
\* The successive results of fgets until it returns NULL.
ReadLines(text, pos) ==
    IF pos > Len(text) THEN <<>>
    ELSE LET e == FgetsEnd(text, pos)
         IN  <<SubSeq(text, pos, e)>> \o ReadLines(text, e + 1)

\* memset(current_display_ptr, 0, sizeof(Display))
ZeroDisplay ==
    [name |-> <<>>, connected |-> FALSE, is_primary |-> FALSE,
     is_active |-> FALSE,
     width |-> 0, height |-> 0, x_offset |-> 0, y_offset |-> 0,
     modes |-> <<>>]

\* The i-th value sscanf assigned, or the value the field already had.
Assigned(r, i, old) == IF Len(r.vals) >= i THEN r.vals[i] ELSE old

\* char name[32], and the size of the int fields that follow it in Display.
NameFieldSize == 32
IntSize == 4

\* A positive value made of bytes of the name.
NameBytes == 256

\* The fields of Display lying after name, once "%s" has stored len
\* characters and the terminating zero from the start of name on: a field
\* at offset off (from the end of name) keeps its value when len stops
\* before it, loses its low byte to the terminating zero when len ends on
\* it (every value the parser has stored there by then is below 256), and
\* holds characters of the name beyond.  The name field of the model keeps
\* every character stored, so that a name longer than NameFieldSize - 1
\* is one written past the field.  Names reaching the modes pointer are
\* not modelled.
OverFlag(old, len, off) ==
    IF len < NameFieldSize + off THEN old ELSE len > NameFieldSize + off

OverInt(old, len, off) ==
    IF len < NameFieldSize + off THEN old
    ELSE IF len = NameFieldSize + off THEN 0 ELSE NameBytes

Overflowed(d, len) ==
    [d EXCEPT !.connected = OverFlag(d.connected, len, 0),
              !.is_primary = OverFlag(d.is_primary, len, IntSize),
              !.width = OverInt(d.width, len, 2 * IntSize),
              !.height = OverInt(d.height, len, 3 * IntSize),
              !.x_offset = OverInt(d.x_offset, len, 4 * IntSize),
              !.y_offset = OverInt(d.y_offset, len, 5 * IntSize)]

\* The assignments of sscanf, in the order of its arguments.
AssignFields(d, r) ==
    [d EXCEPT !.name = Assigned(r, 1, d.name),
              !.width = Assigned(r, 2, d.width),
              !.height = Assigned(r, 3, d.height),
              !.x_offset = Assigned(r, 4, d.x_offset),
              !.y_offset = Assigned(r, 5, d.y_offset)]

\* The fields a header sscanf assigns: the name first, which has no field
\* width in the format, then the geometry.
WithHeaderFields(d, r) ==
    AssignFields(Overflowed(d, Len(Assigned(r, 1, d.name))), r)

\* The header parse that reads the geometry right after "connected" on
\* every line.
HeaderDisplay_NoPrimaryFormat(line) ==
    IF StrStr(line, S_connected)
    THEN LET d == [ZeroDisplay EXCEPT !.connected = TRUE]
         IN  IF StrStr(line, S_primary)
             THEN WithHeaderFields([d EXCEPT !.is_primary = TRUE],
                                   Sscanf(line, FmtConnected))
             ELSE WithHeaderFields(d, Sscanf(line, FmtConnected))
    ELSE [ZeroDisplay EXCEPT
            !.name = Assigned(Sscanf(line, FmtDisconnected), 1, <<>>)]

\* The display record a line holding " connected" makes.
HeaderDisplay(line) ==
    IF StrStr(line, S_connected)
    THEN LET d == [ZeroDisplay EXCEPT !.connected = TRUE]
         IN  IF StrStr(line, S_primary)
             THEN WithHeaderFields([d EXCEPT !.is_primary = TRUE],
                                   Sscanf(line, FmtPrimary))
             ELSE WithHeaderFields(d, Sscanf(line, FmtConnected))
    ELSE WithHeaderFields(ZeroDisplay, Sscanf(line, FmtDisconnected))

\* The marker loop taking one marker only.
ScanMarkers_FirstOnly(line, p, rate) ==
    LET j == SkipWs(line, p)
    IN  IF j <= Len(line) /\ line[j] = "*"
        THEN [rate |-> [rate EXCEPT !.is_current = TRUE], next |-> j + 1]
        ELSE IF j <= Len(line) /\ line[j] = "+"
        THEN [rate |-> [rate EXCEPT !.is_preferred = TRUE], next |-> j + 1]
        ELSE [rate |-> rate, next |-> j]

RECURSIVE ScanMarkers(_, _, _)
\* The marker loop: white space, then '*' or '+', repeated.
ScanMarkers(line, p, rate) ==
    LET j == SkipWs(line, p)
    IN  IF j <= Len(line) /\ line[j] = "*"
        THEN ScanMarkers(line, j + 1, [rate EXCEPT !.is_current = TRUE])
        ELSE IF j <= Len(line) /\ line[j] = "+"
        THEN ScanMarkers(line, j + 1, [rate EXCEPT !.is_preferred = TRUE])
        ELSE [rate |-> rate, next |-> j]

RECURSIVE ScanRates(_, _, _)

\* The rest of an iteration of the refresh-rate loop: strtod returned r; the
\* loop ends when it converted nothing, else the rate with its markers is
\* appended.
ScanRate(line, p, rates, r) ==
    IF r.next = p THEN rates
    ELSE LET m == ScanMarkers(line, r.next,
                    [rate |-> r.val, is_current |-> FALSE,
                     is_preferred |-> FALSE])
         IN  ScanRates(line, m.next, Append(rates, m.rate))

\* The refresh-rate loop of a mode line, from position p.
ScanRates(line, p, rates) == ScanRate(line, p, rates, Strtod(line, p))

\* The mode made of the result r of sscanf(line, " %dx%d %n", ...).
ModeScanned(line, r) ==
    IF Len(r.vals) = 2
    THEN <<[width |-> r.vals[1], height |-> r.vals[2],
            refresh_rates |-> ScanRates(line, r.n + 1, <<>>)]>>
    ELSE <<>>

\* The mode an indented line adds to the open display, <<>> when the line
\* does not start with a resolution.
ModeOfLine(line) == ModeScanned(line, Sscanf(line, FmtMode))

\* is_active, which toggle_display_power and draw_monitor_list read: the
\* display has an assigned resolution.
WithActive(d) == [d EXCEPT !.is_active = d.width > 0]

\* The loop body returning at a failed realloc without free_displays: the
\* displays accumulated so far stay in the result.
ParseLine_KeepPartial(st, line, failAt) ==
    IF st.failed THEN st
    ELSE IF StrStr(line, S_connected)
    THEN IF st.display_count + 1 = failAt
         THEN [st EXCEPT !.display_count = @ + 1, !.cur = 0, !.failed = TRUE]
         ELSE [st EXCEPT !.display_count = @ + 1,
                         !.displays = Append(@, WithActive(HeaderDisplay(line))),
                         !.cur = st.display_count + 1]
    ELSE IF st.cur # 0 /\ st.displays[st.cur].connected /\ IsSpace(line[1])
    THEN [st EXCEPT !.displays[st.cur].modes = @ \o ModeOfLine(line)]
    ELSE [st EXCEPT !.cur = 0]

\* One iteration of the while (fgets(...)) loop.  st.cur is
\* current_display_ptr as an index into st.displays (0: NULL); failAt is the
\* display count at which realloc fails (0: never).
ParseLine(st, line, failAt) ==
    IF st.failed THEN st
    ELSE IF StrStr(line, S_connected)
    THEN IF st.display_count + 1 = failAt
         THEN [st EXCEPT !.display_count = @ + 1, !.displays = <<>>,
                         !.cur = 0, !.failed = TRUE]
         ELSE [st EXCEPT !.display_count = @ + 1,
                         !.displays = Append(@, WithActive(HeaderDisplay(line))),
                         !.cur = st.display_count + 1]
    ELSE IF st.cur # 0 /\ st.displays[st.cur].connected /\ IsSpace(line[1])
    THEN [st EXCEPT !.displays[st.cur].modes = @ \o ModeOfLine(line)]
    ELSE [st EXCEPT !.cur = 0]

RECURSIVE ParseLines(_, _, _, _)
ParseLines(st, lines, i, failAt) ==
    IF i > Len(lines) THEN st
    ELSE ParseLines(ParseLine(st, lines[i], failAt), lines, i + 1, failAt)

\* What the caller gets once the loop is over.
Returned(st) == [displays |-> st.displays, display_count |-> st.display_count]

\* parse_xrandr_output: the array returned (<<>>: NULL, which is also what
\* the function returns when no realloc ever ran) and *display_count.
ParseXrandrOutput(popenOk, text, failAt) ==
    IF ~popenOk THEN [displays |-> <<>>, display_count |-> 0]
    ELSE Returned(ParseLines([displays |-> <<>>, display_count |-> 0,
                              cur |-> 0, failed |-> FALSE],
                             ReadLines(text, 1), 1, failAt))

(***************************************************************************)
(* The tool's report.  The environment is described by a sequence of line  *)
(* descriptors, and Render gives the characters xrandr prints for them:    *)
(* the parser reads the characters only.                                   *)
(***************************************************************************)

\* A header line "<name> connected|disconnected [primary] [WxH+X+Y]";
\* geom is <<>> or <<w, h, x, y>>.
Hdr(name, conn, prim, geom) ==
    [k |-> "hdr", name |-> name, conn |-> conn, prim |-> prim, geom |-> geom,
     w |-> 0, h |-> 0, rates |-> <<>>, pad |-> 0]

\* What xrandr prints after the geometry of a connected output.
HdrTail ==
    <<" ", "(", "n", "o", "r", "m", "a", "l", " ", "l", "e", "f", "t", ")",
      " ", "5", "2", "7", "m", "m", " ", "x", " ", "2", "9", "6", "m", "m">>

\* A connected header line followed by that text.
HdrX(name, prim, geom) == [Hdr(name, TRUE, prim, geom) EXCEPT !.k = "hdrx"]

\* A mode line: indentation, "<w>x<h>", pad extra blanks, then the rates.
ModeLn(w, h, rates, pad) ==
    [k |-> "mode", name |-> <<>>, conn |-> FALSE, prim |-> FALSE, geom |-> <<>>,
     w |-> w, h |-> h, rates |-> rates, pad |-> pad]

\* A blank line.
BlankLn ==
    [k |-> "blank", name |-> <<>>, conn |-> FALSE, prim |-> FALSE,
     geom |-> <<>>, w |-> 0, h |-> 0, rates |-> <<>>, pad |-> 0]

\* A refresh rate of v hundredths of a hertz, followed by the marker
\* characters marks; v < 0: a token that is the characters marks alone.
Rt(v, marks) == [v |-> v, marks |-> marks]

DigitChars == <<"0", "1", "2", "3", "4", "5", "6", "7", "8", "9">>

RECURSIVE IntChars(_)
\* printf("%d") of a natural number.
IntChars(n) ==
    IF n < 10 THEN <<DigitChars[n + 1]>>
    ELSE IntChars(n \div 10) \o <<DigitChars[(n % 10) + 1]>>

\* printf("%.2f") of v hundredths.
RateChars(v) ==
    IntChars(v \div 100) \o <<".">>
        \o <<DigitChars[((v \div 10) % 10) + 1], DigitChars[(v % 10) + 1]>>

Blanks(n) == [i \in 1..n |-> " "]

RECURSIVE RenderRates(_, _)
RenderRates(rates, i) ==
    IF i > Len(rates) THEN <<>>
    ELSE Blanks(2)
             \o (IF rates[i].v < 0 THEN <<>> ELSE RateChars(rates[i].v))
             \o rates[i].marks
             \o RenderRates(rates, i + 1)

RenderLine(l) ==
    CASE l.k \in {"hdr", "hdrx"} ->
           l.name \o <<" ">>
             \o (IF l.conn THEN W_connected ELSE W_disconnected)
             \o (IF l.prim THEN <<" ">> \o W_primary ELSE <<>>)
             \o (IF l.geom = <<>> THEN <<>>
                 ELSE <<" ">> \o IntChars(l.geom[1]) \o <<"x">>
                        \o IntChars(l.geom[2]) \o <<"+">>
                        \o IntChars(l.geom[3]) \o <<"+">>
                        \o IntChars(l.geom[4]))
             \o (IF l.k = "hdrx" THEN HdrTail ELSE <<>>)
             \o <<"\n">>
      [] l.k = "mode" ->
           Blanks(3) \o IntChars(l.w) \o <<"x">> \o IntChars(l.h)
             \o Blanks(l.pad) \o RenderRates(l.rates, 1) \o <<"\n">>
      [] l.k = "blank" -> <<"\n">>

RECURSIVE Render(_, _)
\* The characters of the report, line i onwards.
Render(rep, i) ==
    IF i > Len(rep) THEN <<>> ELSE RenderLine(rep[i]) \o Render(rep, i + 1)

(***************************************************************************)
(* The terminal UI: setup_display_data and main                            *)
(***************************************************************************)

MIN_ROWS == 20
MIN_COLS == 80

\* AppState, PositionPanelFocus
STATE_MONITOR_SELECT == "MonitorSelect"
STATE_MODE_SELECT == "ModeSelect"
STATE_RATE_SELECT == "RateSelect"
STATE_POSITION_SELECT == "PositionSelect"
POS_PANEL_TARGET == "Target"
POS_PANEL_DIRECTION == "Direction"

\* const char *position_directions[]
position_directions == <<"right-of", "left-of", "above", "below", "same-as">>
position_direction_count == Len(position_directions)

\* The menu entry "Exit".
ExitItem == <<"E", "x", "i", "t">>

VARIABLES
    variant,                    \* 1: the main of tui.c 281-511, 2: of 889-1228
    pc,                         \* "start", "loop", "exited", "crashed"
    exit_code,                  \* the value main returned (-1: none yet)
    report,                     \* what xrandr prints now (line descriptors)
    env,                        \* what failed in the latest setup
    displays, display_count,    \* the tree (<<>>: NULL)
    heap,                       \* history: the trees allocated and not freed,
                                \* what the pointer displays points to, and
                                \* whether a tree was freed twice
    menu_items, num_items,
    connected_displays,         \* Display*: indices into displays
    connected_count,
    state,
    monitor_highlight, mode_highlight, rate_highlight,
    monitor_scroll, mode_scroll, rate_scroll,
    pos_panel_focus, pos_target_highlight, pos_direction_highlight,
    position_target_displays,   \* the entries written (<<>>: NULL)
    position_target_count,
    rows, cols,                 \* the terminal size main last read
    ch,                         \* the case label the last key matched
    command,                    \* the command the last step ran
    effects,                    \* what the last step did outside the state
                                \* machine, in order
    resized_flag,               \* volatile sig_atomic_t resized_flag
    ip,                         \* the statement of the first variant's loop
                                \* main is at, where the loop is taken
                                \* statement by statement
    iter_flag,                  \* history: resized_flag at the top of the
                                \* iteration
    iter_cleared,               \* history: the iteration has cleared the flag
    unhandled,                  \* history: handle_winch ran and resizeterm
                                \* has not run since
    twin                        \* where the two variants are run side by
                                \* side: the state before a key, the key and
                                \* the state the first variant reached

treeVars == <<displays, display_count, menu_items, num_items,
              connected_displays, connected_count, heap>>
selVars == <<monitor_highlight, mode_highlight, rate_highlight,
             monitor_scroll, mode_scroll, rate_scroll>>
posVars == <<pos_panel_focus, pos_target_highlight, pos_direction_highlight,
             position_target_displays, position_target_count>>
winchVars == <<resized_flag, ip, iter_flag, iter_cleared, unhandled>>
termVars == <<rows, cols, winchVars, twin>>
vars == <<variant, pc, exit_code, report, env, treeVars, state, selVars,
          posVars, termVars, ch, command, effects>>

\* The first loop of setup_display_data: the number of connected displays.
CountConnected(ds) == Cardinality({i \in 1..Len(ds) : ds[i].connected})

\* The second loop filling the array from its end.
FillConnected_Reversed(ds, i, acc) ==
    [k \in 1..CountConnected(ds) |-> Len(ds) + 1 - k]

RECURSIVE FillConnected(_, _, _)
\* The second loop: connected_displays[current_item++] = &displays[i].
FillConnected(ds, i, acc) ==
    IF i > Len(ds) THEN acc
    ELSE FillConnected(ds, i + 1,
                       IF ds[i].connected THEN Append(acc, i) ELSE acc)

\* setup_display_data after the call of parse_xrandr_output, which
\* returned p.  On failure nothing but *displays and *display_count is
\* written, and main returns at once.
SetupWith(p, mallocOk) ==
    LET failed == [ok |-> FALSE, displays |-> <<>>,
                   display_count |-> p.display_count,
                   menu_items |-> <<>>, num_items |-> 0,
                   connected_displays |-> <<>>, connected_count |-> 0]
    IN  IF p.displays = <<>> THEN failed
        ELSE IF ~mallocOk
        THEN [failed EXCEPT !.connected_count = CountConnected(p.displays)]
        ELSE LET cd == FillConnected(p.displays, 1, <<>>)
                 cc == CountConnected(p.displays)
             IN  [ok |-> TRUE, displays |-> p.displays,
                  display_count |-> p.display_count,
                  menu_items |->
                      [k \in 1..Len(cd) |-> p.displays[cd[k]].name]
                          \o <<ExitItem>>,
                  num_items |-> cc + 1,
                  connected_displays |-> cd, connected_count |-> cc]

SetupDisplayData(popenOk, text, failAt, mallocOk) ==
    SetupWith(ParseXrandrOutput(popenOk, text, failAt), mallocOk)

(***************************************************************************)
(* The environment: reports, failures, terminal sizes, keys                *)
(***************************************************************************)

\* Bounds of the reports: lines of a report the parser is checked on, and
\* displays and modes per display of a report the UI is run on.
MaxLines == 3
MaxDisplays == 3
MaxModes == 3

NameChars == <<"A", "B", "C", "D", "E", "F">>

\* A mode line that does not fit the line buffer: the blanks after the
\* resolution push the rate beyond the 255 characters fgets stores.
LongPad == LineBufSize - 9

LineSet ==
    { Hdr(<<"A">>, TRUE, TRUE, <<8, 6, 0, 0>>),
      Hdr(<<"B">>, TRUE, FALSE, <<>>),
      Hdr(<<"C">>, FALSE, FALSE, <<>>),
      ModeLn(8, 6, <<Rt(6000, <<"*", "+">>), Rt(5994, <<>>)>>, 0),
      ModeLn(4, 3, <<>>, 0),
      ModeLn(2, 1, <<Rt(5000, <<>>)>>, LongPad),
      BlankLn }

\* The reports parse_xrandr_output is checked on.
Reports == UNION {[1..n -> LineSet] : n \in 0..MaxLines}

\* Mode line j of a display of the UI's reports: j - 1 refresh rates, the
\* first one current and preferred.
NavModeLine(j) ==
    ModeLn(10 * j, j,
           [k \in 1..(j - 1) |->
               Rt(6000 - 6 * (k - 1), IF k = 1 THEN <<"*", "+">> ELSE <<>>)],
           0)

\* The number of modes of display i of the UI's reports: the first display
\* has MaxModes modes, the second none, the third one, ...
NavModeCount(i) == IF i = 1 THEN MaxModes ELSE Min(i - 2, MaxModes)

\* Display i; the first display is primary and active, and is followed by a
\* disconnected output.
NavDisplayLines(i) ==
    <<Hdr(<<NameChars[i]>>, TRUE, i = 1,
          IF i = 1 THEN <<10, 1, 0, 0>> ELSE <<>>)>>
      \o [j \in 1..NavModeCount(i) |-> NavModeLine(j)]
      \o (IF i = 1 THEN <<Hdr(<<"Z">>, FALSE, FALSE, <<>>)>> ELSE <<>>)

RECURSIVE NavReport(_)
\* The report of d displays.
NavReport(d) ==
    IF d = 0 THEN <<>> ELSE NavReport(d - 1) \o NavDisplayLines(d)

\* The reports the UI is run on.
NavReports == {NavReport(d) : d \in 0..MaxDisplays}

\* What the environment lets fail in one call of setup_display_data: popen,
\* the realloc of the display array at a given count, or the menu's malloc.
NoFault == [popen_ok |-> TRUE, fail_at |-> 0, malloc_ok |-> TRUE]
Faults ==
    { NoFault,
      [NoFault EXCEPT !.popen_ok = FALSE],
      [NoFault EXCEPT !.fail_at = 1],
      [NoFault EXCEPT !.fail_at = 2],
      [NoFault EXCEPT !.malloc_ok = FALSE] }

\* Terminal sizes <<rows, cols>>.
TermSizes == {<<6, 80>>, <<10, 79>>, <<20, 80>>}

\* Keys with no case in the switch.
OtherKeys == IF variant = 1 THEN {"x", "o", "p", "Tab", "KEY_RESIZE"} ELSE {"x"}

(***************************************************************************)
(* Commands                                                                *)
(***************************************************************************)
NoCommand ==
    [op |-> "none", output |-> <<>>, width |-> 0, height |-> 0, rate |-> 0,
     direction |-> "", target |-> <<>>]

\* printf("%.2f"): the rate in hundredths, rounded.
Fmt2(r) ==
    IF r.dec <= 2 THEN r.num * Pow10(2 - r.dec)
    ELSE (r.num + 5 * Pow10(r.dec - 3)) \div Pow10(r.dec - 2)

\* What an out-of-bounds or NULL read yields when the process survives it.
GarbageName == <<"?">>
GarbageRate == 0 - 1

\* What toggle_display_power, apply_position_settings and
\* apply_xrandr_settings do once the command line is formatted: leave
\* ncurses, run the command, wait for the user, restore the terminal.
RunCommand == <<"endwin", "system", "getchar", "reset_prog_mode">>

\* A handler that frees the tree before it runs the command.
HandlerEffects_CleanupFirst ==
    <<"cleanup_display_data">> \o RunCommand \o <<"setup_display_data">>

\* A handler that issues a command: the command, then the old tree is freed
\* and the report parsed anew.
HandlerEffects ==
    RunCommand \o <<"cleanup_display_data", "setup_display_data">>

\* toggle_display_power with the two commands exchanged.
TogglePowerCommand_Swapped(d) ==
    [NoCommand EXCEPT !.op = IF d.is_active THEN "--auto" ELSE "--off",
                      !.output = d.name]

\* toggle_display_power: "xrandr --output %s --off" / "... --auto"
TogglePowerCommand(d) ==
    [NoCommand EXCEPT !.op = IF d.is_active THEN "--off" ELSE "--auto",
                      !.output = d.name]

\* apply_position_settings: "xrandr --output %s --%s %s --auto"
PositionCommand(sourceName, targetName, direction) ==
    [NoCommand EXCEPT !.op = "--position", !.output = sourceName,
                      !.direction = direction, !.target = targetName]

\* apply_xrandr_settings: "xrandr --output %s --mode %dx%d --rate %.2f"
ModeCommand(d, m, rate2) ==
    [NoCommand EXCEPT !.op = "--mode", !.output = d.name,
                      !.width = m.width, !.height = m.height, !.rate = rate2]

(***************************************************************************)
(* main                                                                    *)
(***************************************************************************)

\* No tree yet: Display *displays = NULL.
NoHeap == [trees |-> 0, ptr |-> "null", twice |-> FALSE]

\* cleanup_display_data without its calls of free.
AfterCleanup_Nothing(h) == h

\* cleanup_display_data(displays, ...): the tree displays points to is
\* freed with its menu and its connected projection; the pointer is left
\* as it is.  free_displays returns at once on NULL.
AfterCleanup(h) ==
    IF h.ptr = "live" THEN [h EXCEPT !.trees = @ - 1, !.ptr = "freed"]
    ELSE IF h.ptr = "freed" THEN [h EXCEPT !.twice = TRUE]
    ELSE h

\* setup_display_data under the failure f with the result r: a new tree,
\* or none; when the menu's malloc fails the tree is freed at once and
\* *displays keeps pointing to it.
AfterSetup(h, f, r) ==
    IF r.ok THEN [h EXCEPT !.trees = @ + 1, !.ptr = "live"]
    ELSE [h EXCEPT !.ptr = IF ~f.malloc_ok /\ r.display_count > 0
                           THEN "freed" ELSE "null"]

\* Nothing is run side by side.
NoTwin == [phase |-> "idle"]

\* The state before main runs, with the report and the terminal drawn from
\* the given sets.
InitWith(reps, variants, sizes) ==
    /\ variant \in variants
    /\ pc = "start"
    /\ exit_code = -1
    /\ report \in reps
    /\ env = NoFault
    /\ displays = <<>> /\ display_count = 0
    /\ heap = NoHeap
    /\ menu_items = <<>> /\ num_items = 0
    /\ connected_displays = <<>> /\ connected_count = 0
    /\ state = STATE_MONITOR_SELECT
    /\ monitor_highlight = 0 /\ mode_highlight = 0 /\ rate_highlight = 0
    /\ monitor_scroll = 0 /\ mode_scroll = 0 /\ rate_scroll = 0
    /\ pos_panel_focus = POS_PANEL_TARGET
    /\ pos_target_highlight = 0 /\ pos_direction_highlight = 0
    /\ position_target_displays = <<>> /\ position_target_count = 0
    /\ \E sz \in sizes : rows = sz[1] /\ cols = sz[2]
    /\ ch = "none"
    /\ command = NoCommand
    /\ effects = <<>>
    /\ resized_flag = 0
    /\ ip = "top"
    /\ iter_flag = 0 /\ iter_cleared = FALSE /\ unhandled = FALSE
    /\ twin = NoTwin

Init == InitWith(NavReports, {1, 2}, TermSizes)

\* The out-parameters of setup_display_data.
SetTree(r) ==
    /\ displays' = r.displays
    /\ display_count' = r.display_count
    /\ menu_items' = r.menu_items
    /\ num_items' = r.num_items
    /\ connected_displays' = r.connected_displays
    /\ connected_count' = r.connected_count

\* The reset without the scroll offset of the mode list.
ResetUI_KeepScroll ==
    /\ state' = STATE_MONITOR_SELECT
    /\ monitor_highlight' = 0 /\ monitor_scroll' = 0
    /\ mode_highlight' = 0 /\ mode_scroll' = mode_scroll
    /\ rate_highlight' = 0 /\ rate_scroll' = 0

\* "Reset UI state to the top, as data has changed"
ResetUI ==
    /\ state' = STATE_MONITOR_SELECT
    /\ monitor_highlight' = 0 /\ monitor_scroll' = 0
    /\ mode_highlight' = 0 /\ mode_scroll' = 0
    /\ rate_highlight' = 0 /\ rate_scroll' = 0

\* main has returned or the process has ended: the locals of main are no
\* more, and read as they did before main ran.
LocalsGone ==
    /\ state' = STATE_MONITOR_SELECT
    /\ monitor_highlight' = 0 /\ monitor_scroll' = 0
    /\ mode_highlight' = 0 /\ mode_scroll' = 0
    /\ rate_highlight' = 0 /\ rate_scroll' = 0
    /\ pos_panel_focus' = POS_PANEL_TARGET
    /\ pos_target_highlight' = 0 /\ pos_direction_highlight' = 0
    /\ position_target_count' = 0

\* main after its first setup_display_data, which returned r under the
\* failure f: return 1 when it failed.
Started(f, r) ==
    /\ (f = NoFault \/ ~r.ok)
    /\ env' = f
    /\ SetTree(r)
    /\ heap' = AfterSetup(heap, f, r)
    /\ pc' = IF r.ok THEN "loop" ELSE "exited"
    /\ exit_code' = IF r.ok THEN exit_code ELSE 1

\* Some header line of the lines read has a first token that does not fit
\* the name field.
NameOverflow(lines) ==
    \E i \in 1..Len(lines) :
        /\ StrStr(lines[i], S_connected)
        /\ Len(Assigned(Sscanf(lines[i], <<PctS>>), 1, <<>>)) >= NameFieldSize

\* The first statement of main: the tree of setup_display_data, or, when
\* a name was written past its field, the process killed by a build that
\* detects the write.
Start ==
    /\ pc = "start"
    /\ \/ /\ \E f \in Faults :
               Started(f, SetupDisplayData(f.popen_ok, Render(report, 1),
                                           f.fail_at, f.malloc_ok))
          /\ UNCHANGED <<variant, report, state, selVars, posVars, termVars,
                         ch, command, effects>>
       \/ /\ NameOverflow(ReadLines(Render(report, 1), 1))
          /\ pc' = "crashed"
          /\ UNCHANGED <<variant, exit_code, report, env, treeVars, state,
                         selVars, posVars, termVars, ch, command, effects>>

\* setup_display_data on each report the UI is run on, under each failure.
NavSetup ==
    [rep \in NavReports |->
        [f \in Faults |->
            SetupDisplayData(f.popen_ok, Render(rep, 1), f.fail_at,
                             f.malloc_ok)]]

\* The handler returning 0 when its setup_display_data failed.
Reparsed_ExitZero(rep, f, r) ==
    /\ (f = NoFault \/ ~r.ok)
    /\ report' = rep
    /\ env' = f
    /\ SetTree(r)
    /\ heap' = AfterSetup(AfterCleanup(heap), f, r)
    /\ IF r.ok
       THEN /\ ResetUI
            /\ UNCHANGED <<pc, exit_code>>
            /\ UNCHANGED <<pos_panel_focus, pos_target_highlight,
                           pos_direction_highlight, position_target_count>>
       ELSE /\ pc' = "exited"
            /\ exit_code' = 0
            /\ LocalsGone

\* The handler after its setup_display_data, which returned r on the report
\* rep under the failure f: the reset, or return 1.
Reparsed(rep, f, r) ==
    /\ (f = NoFault \/ ~r.ok)
    /\ report' = rep
    /\ env' = f
    /\ SetTree(r)
    /\ heap' = AfterSetup(AfterCleanup(heap), f, r)
    /\ IF r.ok
       THEN /\ ResetUI
            /\ UNCHANGED <<pc, exit_code>>
            /\ UNCHANGED <<pos_panel_focus, pos_target_highlight,
                           pos_direction_highlight, position_target_count>>
       ELSE /\ pc' = "exited"
            /\ exit_code' = 1
            /\ LocalsGone

\* A pointer that is not NULL and whose block has been freed.
Dangling == <<0>>

\* free(p) with p left as it is: NULL stays NULL.
Freed(p) == IF p = <<>> THEN <<>> ELSE Dangling

\* A command has run (the tool's report afterwards is any of the reports);
\* cleanup_display_data, setup_display_data, and the reset or return 1.
\* targets is position_target_displays after the free.
RunAndReparse(cmd, targets) ==
    /\ command' = cmd
    /\ effects' = HandlerEffects
    /\ position_target_displays' = targets
    /\ \E rep \in NavReports, f \in Faults : Reparsed(rep, f, NavSetup[rep][f])
    /\ UNCHANGED <<variant, termVars>>

\* The process is over, and all its memory with it.
ProcessGone ==
    /\ displays' = <<>> /\ display_count' = 0
    /\ menu_items' = <<>> /\ num_items' = 0
    /\ connected_displays' = <<>> /\ connected_count' = 0
    /\ position_target_displays' = <<>>
    /\ LocalsGone

\* cleanup_ncurses, cleanup_display_data, free, return 0.
ExitCleanly ==
    /\ pc' = "exited"
    /\ exit_code' = 0
    /\ ProcessGone
    /\ heap' = AfterCleanup(heap)
    /\ command' = NoCommand /\ effects' = <<>>
    /\ UNCHANGED <<variant, report, env, termVars>>

\* The process is killed by a signal inside the handler.
Crash ==
    /\ pc' = "crashed"
    /\ command' = NoCommand /\ effects' = <<>>
    /\ ProcessGone
    /\ heap' = heap
    /\ UNCHANGED <<variant, exit_code, report, env, termVars>>

\* A case that changes nothing.
NoChange ==
    /\ command' = NoCommand /\ effects' = <<>>
    /\ UNCHANGED <<variant, pc, exit_code, report, env, treeVars, state,
                   selVars, posVars, termVars>>

TooSmall == rows < MIN_ROWS \/ cols < MIN_COLS

\* The key getch returned reaches the switch: the first variant reads and
\* drops a key while the terminal is too small.
KeyReachesSwitch == pc = "loop" /\ (variant = 2 \/ ~TooSmall)

monitor_view_height == rows - 4
right_panel_view_height == IF rows - 8 < 1 THEN 1 ELSE rows - 8

\* connected_displays[monitor_highlight]
SelectedDisplay == displays[connected_displays[monitor_highlight + 1]]
\* &d->modes[mode_highlight]
SelectedMode == SelectedDisplay.modes[mode_highlight + 1]

\* case 'q': case 'Q':
Quit ==
    /\ KeyReachesSwitch
    /\ ch' = "q"
    /\ ExitCleanly

\* case 'o' without the test of the state.
Toggle_NoStateTest ==
    /\ KeyReachesSwitch
    /\ variant = 2
    /\ ch' = "o"
    /\ IF monitor_highlight < connected_count
       THEN RunAndReparse(TogglePowerCommand(SelectedDisplay),
                          Freed(position_target_displays))
       ELSE NoChange

\* case 'o': case 'O':
Toggle ==
    /\ KeyReachesSwitch
    /\ variant = 2
    /\ ch' = "o"
    /\ IF state = STATE_MONITOR_SELECT /\ monitor_highlight < connected_count
       THEN RunAndReparse(TogglePowerCommand(SelectedDisplay),
                          Freed(position_target_displays))
       ELSE NoChange

RECURSIVE TargetsFrom(_, _)
\* The loop of case 'p': for (i = 0; i < connected_count; i++), skipping
\* i == monitor_highlight; acc holds the entries written so far.
TargetsFrom(i, acc) ==
    IF i >= connected_count THEN acc
    ELSE TargetsFrom(i + 1,
                     IF i = monitor_highlight THEN acc
                     ELSE Append(acc, connected_displays[i + 1]))

PositionTargets == TargetsFrom(0, <<>>)

\* case 'p': case 'P':
Position ==
    /\ KeyReachesSwitch
    /\ variant = 2
    /\ ch' = "p"
    /\ IF state = STATE_MONITOR_SELECT /\ connected_count > 1
       THEN /\ command' = NoCommand /\ effects' = <<>>
            /\ \/ \* malloc fails: exit(1)
                  /\ pc' = "exited" /\ exit_code' = 1
                  /\ ProcessGone
                  /\ heap' = heap
                  /\ UNCHANGED <<variant, report, env, termVars>>
               \/ /\ state' = STATE_POSITION_SELECT
                  /\ position_target_count' = connected_count - 1
                  /\ position_target_displays' = PositionTargets
                  /\ pos_panel_focus' = POS_PANEL_TARGET
                  /\ pos_target_highlight' = 0
                  /\ pos_direction_highlight' = 0
                  /\ exit_code' = exit_code
                  /\ pc' = pc
                  /\ UNCHANGED <<variant, report, env, treeVars, selVars,
                                 termVars>>
               \/ \* writing past the allocation is undefined: the process
                  \* goes on (above) or is killed
                  /\ Len(PositionTargets) > connected_count - 1
                  /\ Crash
       ELSE NoChange

\* case KEY_RESIZE (second variant); in the first variant the size is read
\* at the top of every iteration.
Resize ==
    /\ pc = "loop"
    /\ \E sz \in TermSizes :
         /\ sz # <<rows, cols>>
         /\ rows' = sz[1] /\ cols' = sz[2]
    /\ ch' = IF variant = 2 THEN "KEY_RESIZE" ELSE ch
    /\ command' = NoCommand /\ effects' = <<>>
    /\ UNCHANGED <<variant, pc, exit_code, report, env, treeVars, state,
                   selVars, posVars, winchVars, twin>>

\* A move up that does not wrap at the first item.
MoveUp_NoWrap(highlight, count) == highlight - 1

\* (highlight == 0) ? count - 1 : highlight - 1
MoveUp(highlight, count) == IF highlight = 0 THEN count - 1 ELSE highlight - 1

\* A move down that stops at the last item.
MoveDown_NoWrap(highlight, count) ==
    IF highlight + 1 >= count THEN highlight ELSE highlight + 1

\* (highlight + 1) % count
MoveDown(highlight, count) == (highlight + 1) % count

\* The scroll offset after a move up to highlight.
ScrollUp(highlight, scroll, count, height) ==
    IF highlight < scroll THEN highlight
    ELSE IF highlight >= count - 1
    THEN (IF count > height THEN count - height ELSE 0)
    ELSE scroll

\* A move down that never scrolls.
ScrollDown_Keep(highlight, scroll, height) == scroll

\* The scroll offset after a move down to highlight.
ScrollDown(highlight, scroll, height) ==
    IF highlight >= scroll + height THEN highlight - height + 1
    ELSE IF highlight = 0 THEN 0
    ELSE scroll

\* case KEY_UP moving in the rate list without the test of its length.
Up_NoRateGuard ==
    /\ KeyReachesSwitch
    /\ ch' = "KEY_UP"
    /\ command' = NoCommand /\ effects' = <<>>
    /\ IF state = STATE_MONITOR_SELECT
       THEN /\ monitor_highlight' = MoveUp(monitor_highlight, num_items)
            /\ monitor_scroll' = ScrollUp(monitor_highlight', monitor_scroll,
                                          num_items, monitor_view_height)
            /\ UNCHANGED <<mode_highlight, mode_scroll, rate_highlight,
                           rate_scroll, pos_target_highlight,
                           pos_direction_highlight>>
       ELSE IF state = STATE_MODE_SELECT
       THEN /\ IF Len(SelectedDisplay.modes) > 0
               THEN /\ mode_highlight' =
                         MoveUp(mode_highlight, Len(SelectedDisplay.modes))
                    /\ mode_scroll' =
                         ScrollUp(mode_highlight', mode_scroll,
                                  Len(SelectedDisplay.modes),
                                  right_panel_view_height)
               ELSE UNCHANGED <<mode_highlight, mode_scroll>>
            /\ UNCHANGED <<monitor_highlight, monitor_scroll, rate_highlight,
                           rate_scroll, pos_target_highlight,
                           pos_direction_highlight>>
       ELSE IF state = STATE_POSITION_SELECT
       THEN /\ IF pos_panel_focus = POS_PANEL_TARGET
               THEN /\ pos_target_highlight' =
                         IF position_target_count > 0
                         THEN MoveUp(pos_target_highlight,
                                     position_target_count)
                         ELSE pos_target_highlight
                    /\ UNCHANGED pos_direction_highlight
               ELSE /\ pos_direction_highlight' =
                         MoveUp(pos_direction_highlight,
                                position_direction_count)
                    /\ UNCHANGED pos_target_highlight
            /\ UNCHANGED selVars
       ELSE /\ IF Len(SelectedDisplay.modes) > 0
               THEN /\ rate_highlight' =
                         MoveUp(rate_highlight, Len(SelectedMode.refresh_rates))
                    /\ rate_scroll' =
                         ScrollUp(rate_highlight', rate_scroll,
                                  Len(SelectedMode.refresh_rates),
                                  right_panel_view_height)
               ELSE UNCHANGED <<rate_highlight, rate_scroll>>
            /\ UNCHANGED <<monitor_highlight, monitor_scroll, mode_highlight,
                           mode_scroll, pos_target_highlight,
                           pos_direction_highlight>>
    /\ UNCHANGED <<variant, pc, exit_code, report, env, treeVars, state,
                   pos_panel_focus, position_target_displays,
                   position_target_count, termVars>>

\* case KEY_UP: case 'k':
Up ==
    /\ KeyReachesSwitch
    /\ ch' = "KEY_UP"
    /\ command' = NoCommand /\ effects' = <<>>
    /\ IF state = STATE_MONITOR_SELECT
       THEN /\ monitor_highlight' = MoveUp(monitor_highlight, num_items)
            /\ monitor_scroll' = ScrollUp(monitor_highlight', monitor_scroll,
                                          num_items, monitor_view_height)
            /\ UNCHANGED <<mode_highlight, mode_scroll, rate_highlight,
                           rate_scroll, pos_target_highlight,
                           pos_direction_highlight>>
       ELSE IF state = STATE_MODE_SELECT
       THEN /\ IF Len(SelectedDisplay.modes) > 0
               THEN /\ mode_highlight' =
                         MoveUp(mode_highlight, Len(SelectedDisplay.modes))
                    /\ mode_scroll' =
                         ScrollUp(mode_highlight', mode_scroll,
                                  Len(SelectedDisplay.modes),
                                  right_panel_view_height)
               ELSE UNCHANGED <<mode_highlight, mode_scroll>>
            /\ UNCHANGED <<monitor_highlight, monitor_scroll, rate_highlight,
                           rate_scroll, pos_target_highlight,
                           pos_direction_highlight>>
       ELSE IF state = STATE_POSITION_SELECT
       THEN /\ IF pos_panel_focus = POS_PANEL_TARGET
               THEN /\ pos_target_highlight' =
                         IF position_target_count > 0
                         THEN MoveUp(pos_target_highlight,
                                     position_target_count)
                         ELSE pos_target_highlight
                    /\ UNCHANGED pos_direction_highlight
               ELSE /\ pos_direction_highlight' =
                         MoveUp(pos_direction_highlight,
                                position_direction_count)
                    /\ UNCHANGED pos_target_highlight
            /\ UNCHANGED selVars
       ELSE /\ IF Len(SelectedDisplay.modes) > 0
                  /\ Len(SelectedMode.refresh_rates) > 0
               THEN /\ rate_highlight' =
                         MoveUp(rate_highlight, Len(SelectedMode.refresh_rates))
                    /\ rate_scroll' =
                         ScrollUp(rate_highlight', rate_scroll,
                                  Len(SelectedMode.refresh_rates),
                                  right_panel_view_height)
               ELSE UNCHANGED <<rate_highlight, rate_scroll>>
            /\ UNCHANGED <<monitor_highlight, monitor_scroll, mode_highlight,
                           mode_scroll, pos_target_highlight,
                           pos_direction_highlight>>
    /\ UNCHANGED <<variant, pc, exit_code, report, env, treeVars, state,
                   pos_panel_focus, position_target_displays,
                   position_target_count, termVars>>

\* case KEY_DOWN moving the direction selection along with the target
\* selection.
Down_MovesBoth ==
    /\ KeyReachesSwitch
    /\ ch' = "KEY_DOWN"
    /\ command' = NoCommand /\ effects' = <<>>
    /\ IF state = STATE_MONITOR_SELECT
       THEN /\ monitor_highlight' = MoveDown(monitor_highlight, num_items)
            /\ monitor_scroll' = ScrollDown(monitor_highlight', monitor_scroll,
                                            monitor_view_height)
            /\ UNCHANGED <<mode_highlight, mode_scroll, rate_highlight,
                           rate_scroll, pos_target_highlight,
                           pos_direction_highlight>>
       ELSE IF state = STATE_MODE_SELECT
       THEN /\ IF Len(SelectedDisplay.modes) > 0
               THEN /\ mode_highlight' =
                         MoveDown(mode_highlight, Len(SelectedDisplay.modes))
                    /\ mode_scroll' =
                         ScrollDown(mode_highlight', mode_scroll,
                                    right_panel_view_height)
               ELSE UNCHANGED <<mode_highlight, mode_scroll>>
            /\ UNCHANGED <<monitor_highlight, monitor_scroll, rate_highlight,
                           rate_scroll, pos_target_highlight,
                           pos_direction_highlight>>
       ELSE IF state = STATE_POSITION_SELECT
       THEN /\ IF pos_panel_focus = POS_PANEL_TARGET
               THEN /\ pos_target_highlight' =
                         IF position_target_count > 0
                         THEN MoveDown(pos_target_highlight,
                                       position_target_count)
                         ELSE pos_target_highlight
                    /\ pos_direction_highlight' =
                         MoveDown(pos_direction_highlight,
                                  position_direction_count)
               ELSE /\ pos_direction_highlight' =
                         MoveDown(pos_direction_highlight,
                                  position_direction_count)
                    /\ UNCHANGED pos_target_highlight
            /\ UNCHANGED selVars
       ELSE /\ IF Len(SelectedDisplay.modes) > 0
                  /\ Len(SelectedMode.refresh_rates) > 0
               THEN /\ rate_highlight' =
                         MoveDown(rate_highlight,
                                  Len(SelectedMode.refresh_rates))
                    /\ rate_scroll' =
                         ScrollDown(rate_highlight', rate_scroll,
                                    right_panel_view_height)
               ELSE UNCHANGED <<rate_highlight, rate_scroll>>
            /\ UNCHANGED <<monitor_highlight, monitor_scroll, mode_highlight,
                           mode_scroll, pos_target_highlight,
                           pos_direction_highlight>>
    /\ UNCHANGED <<variant, pc, exit_code, report, env, treeVars, state,
                   pos_panel_focus, position_target_displays,
                   position_target_count, termVars>>

\* case KEY_DOWN: case 'j':
Down ==
    /\ KeyReachesSwitch
    /\ ch' = "KEY_DOWN"
    /\ command' = NoCommand /\ effects' = <<>>
    /\ IF state = STATE_MONITOR_SELECT
       THEN /\ monitor_highlight' = MoveDown(monitor_highlight, num_items)
            /\ monitor_scroll' = ScrollDown(monitor_highlight', monitor_scroll,
                                            monitor_view_height)
            /\ UNCHANGED <<mode_highlight, mode_scroll, rate_highlight,
                           rate_scroll, pos_target_highlight,
                           pos_direction_highlight>>
       ELSE IF state = STATE_MODE_SELECT
       THEN /\ IF Len(SelectedDisplay.modes) > 0
               THEN /\ mode_highlight' =
                         MoveDown(mode_highlight, Len(SelectedDisplay.modes))
                    /\ mode_scroll' =
                         ScrollDown(mode_highlight', mode_scroll,
                                    right_panel_view_height)
               ELSE UNCHANGED <<mode_highlight, mode_scroll>>
            /\ UNCHANGED <<monitor_highlight, monitor_scroll, rate_highlight,
                           rate_scroll, pos_target_highlight,
                           pos_direction_highlight>>
       ELSE IF state = STATE_POSITION_SELECT
       THEN /\ IF pos_panel_focus = POS_PANEL_TARGET
               THEN /\ pos_target_highlight' =
                         IF position_target_count > 0
                         THEN MoveDown(pos_target_highlight,
                                       position_target_count)
                         ELSE pos_target_highlight
                    /\ UNCHANGED pos_direction_highlight
               ELSE /\ pos_direction_highlight' =
                         MoveDown(pos_direction_highlight,
                                  position_direction_count)
                    /\ UNCHANGED pos_target_highlight
            /\ UNCHANGED selVars
       ELSE /\ IF Len(SelectedDisplay.modes) > 0
                  /\ Len(SelectedMode.refresh_rates) > 0
               THEN /\ rate_highlight' =
                         MoveDown(rate_highlight,
                                  Len(SelectedMode.refresh_rates))
                    /\ rate_scroll' =
                         ScrollDown(rate_highlight', rate_scroll,
                                    right_panel_view_height)
               ELSE UNCHANGED <<rate_highlight, rate_scroll>>
            /\ UNCHANGED <<monitor_highlight, monitor_scroll, mode_highlight,
                           mode_scroll, pos_target_highlight,
                           pos_direction_highlight>>
    /\ UNCHANGED <<variant, pc, exit_code, report, env, treeVars, state,
                   pos_panel_focus, position_target_displays,
                   position_target_count, termVars>>

\* case 9 moving the focus to the direction list, never back.
Tab_ToDirection ==
    /\ KeyReachesSwitch
    /\ variant = 2
    /\ ch' = "Tab"
    /\ command' = NoCommand /\ effects' = <<>>
    /\ pos_panel_focus' =
         IF state = STATE_POSITION_SELECT THEN POS_PANEL_DIRECTION
         ELSE pos_panel_focus
    /\ UNCHANGED <<variant, pc, exit_code, report, env, treeVars, state,
                   selVars, pos_target_highlight, pos_direction_highlight,
                   position_target_displays, position_target_count, termVars>>

\* case 9: the Tab key
Tab ==
    /\ KeyReachesSwitch
    /\ variant = 2
    /\ ch' = "Tab"
    /\ command' = NoCommand /\ effects' = <<>>
    /\ pos_panel_focus' =
         IF state = STATE_POSITION_SELECT
         THEN (IF pos_panel_focus = POS_PANEL_TARGET THEN POS_PANEL_DIRECTION
               ELSE POS_PANEL_TARGET)
         ELSE pos_panel_focus
    /\ UNCHANGED <<variant, pc, exit_code, report, env, treeVars, state,
                   selVars, pos_target_highlight, pos_direction_highlight,
                   position_target_displays, position_target_count, termVars>>

\* Entering the mode list with the monitor list scrolled back to its top.
EnterModeSelect_ScrollTop ==
    /\ state' = STATE_MODE_SELECT
    /\ mode_highlight' = 0 /\ mode_scroll' = 0
    /\ rate_highlight' = 0 /\ rate_scroll' = 0
    /\ monitor_highlight' = monitor_highlight /\ monitor_scroll' = 0

\* state = STATE_MODE_SELECT with both sub-panel cursors at the top.
EnterModeSelect ==
    /\ state' = STATE_MODE_SELECT
    /\ mode_highlight' = 0 /\ mode_scroll' = 0
    /\ rate_highlight' = 0 /\ rate_scroll' = 0
    /\ UNCHANGED <<monitor_highlight, monitor_scroll>>

\* state = STATE_RATE_SELECT with the rate cursor at the top.
EnterRateSelect ==
    /\ state' = STATE_RATE_SELECT
    /\ rate_highlight' = 0 /\ rate_scroll' = 0
    /\ UNCHANGED <<monitor_highlight, monitor_scroll, mode_highlight,
                   mode_scroll>>

\* The condition under which right/'l'/Enter leave STATE_MODE_SELECT:
\* d->mode_count > 0.
CanEnterRateSelect == Len(SelectedDisplay.modes) > 0

\* case KEY_RIGHT without the test that a display is selected.
Right_NoExitTest ==
    /\ KeyReachesSwitch
    /\ ch' = "KEY_RIGHT"
    /\ command' = NoCommand /\ effects' = <<>>
    /\ IF state = STATE_MONITOR_SELECT
       THEN EnterModeSelect
       ELSE IF state = STATE_MODE_SELECT /\ CanEnterRateSelect
       THEN EnterRateSelect
       ELSE UNCHANGED <<state, selVars>>
    /\ UNCHANGED <<variant, pc, exit_code, report, env, treeVars, posVars,
                   termVars>>

\* case KEY_RIGHT: case 'l':
Right ==
    /\ KeyReachesSwitch
    /\ ch' = "KEY_RIGHT"
    /\ command' = NoCommand /\ effects' = <<>>
    /\ IF state = STATE_MONITOR_SELECT /\ monitor_highlight < connected_count
       THEN EnterModeSelect
       ELSE IF state = STATE_MODE_SELECT /\ CanEnterRateSelect
       THEN EnterRateSelect
       ELSE UNCHANGED <<state, selVars>>
    /\ UNCHANGED <<variant, pc, exit_code, report, env, treeVars, posVars,
                   termVars>>

\* case KEY_LEFT leaving the position panel with its target list kept.
Left_KeepList ==
    /\ KeyReachesSwitch
    /\ ch' = "KEY_LEFT"
    /\ command' = NoCommand /\ effects' = <<>>
    /\ IF variant = 2 /\ state = STATE_POSITION_SELECT
       THEN /\ state' = STATE_MONITOR_SELECT
            /\ UNCHANGED <<selVars, position_target_displays,
                           position_target_count>>
       ELSE IF state = STATE_RATE_SELECT
       THEN /\ state' = STATE_MODE_SELECT
            /\ rate_highlight' = 0 /\ rate_scroll' = 0
            /\ UNCHANGED <<monitor_highlight, monitor_scroll, mode_highlight,
                           mode_scroll, position_target_displays,
                           position_target_count>>
       ELSE IF state = STATE_MODE_SELECT
       THEN /\ state' = STATE_MONITOR_SELECT
            /\ mode_highlight' = 0 /\ mode_scroll' = 0
            /\ UNCHANGED <<monitor_highlight, monitor_scroll, rate_highlight,
                           rate_scroll, position_target_displays,
                           position_target_count>>
       ELSE UNCHANGED <<state, selVars, position_target_displays,
                        position_target_count>>
    /\ UNCHANGED <<variant, pc, exit_code, report, env, treeVars,
                   pos_panel_focus, pos_target_highlight,
                   pos_direction_highlight, termVars>>

\* case KEY_LEFT leaving the rate list without resetting its cursor.
Left_NoRateReset ==
    /\ KeyReachesSwitch
    /\ ch' = "KEY_LEFT"
    /\ command' = NoCommand /\ effects' = <<>>
    /\ IF variant = 2 /\ state = STATE_POSITION_SELECT
       THEN /\ state' = STATE_MONITOR_SELECT
            /\ position_target_displays' = <<>>
            /\ position_target_count' = 0
            /\ UNCHANGED selVars
       ELSE IF state = STATE_RATE_SELECT
       THEN /\ state' = STATE_MODE_SELECT
            /\ UNCHANGED <<selVars, position_target_displays,
                           position_target_count>>
       ELSE IF state = STATE_MODE_SELECT
       THEN /\ state' = STATE_MONITOR_SELECT
            /\ mode_highlight' = 0 /\ mode_scroll' = 0
            /\ UNCHANGED <<monitor_highlight, monitor_scroll, rate_highlight,
                           rate_scroll, position_target_displays,
                           position_target_count>>
       ELSE UNCHANGED <<state, selVars, position_target_displays,
                        position_target_count>>
    /\ UNCHANGED <<variant, pc, exit_code, report, env, treeVars,
                   pos_panel_focus, pos_target_highlight,
                   pos_direction_highlight, termVars>>

\* case KEY_LEFT: case 'h':
Left ==
    /\ KeyReachesSwitch
    /\ ch' = "KEY_LEFT"
    /\ command' = NoCommand /\ effects' = <<>>
    /\ IF variant = 2 /\ state = STATE_POSITION_SELECT
       THEN /\ state' = STATE_MONITOR_SELECT
            /\ position_target_displays' = <<>>
            /\ position_target_count' = 0
            /\ UNCHANGED selVars
       ELSE IF state = STATE_RATE_SELECT
       THEN /\ state' = STATE_MODE_SELECT
            /\ rate_highlight' = 0 /\ rate_scroll' = 0
            /\ UNCHANGED <<monitor_highlight, monitor_scroll, mode_highlight,
                           mode_scroll, position_target_displays,
                           position_target_count>>
       ELSE IF state = STATE_MODE_SELECT
       THEN /\ state' = STATE_MONITOR_SELECT
            /\ mode_highlight' = 0 /\ mode_scroll' = 0
            /\ UNCHANGED <<monitor_highlight, monitor_scroll, rate_highlight,
                           rate_scroll, position_target_displays,
                           position_target_count>>
       ELSE UNCHANGED <<state, selVars, position_target_displays,
                        position_target_count>>
    /\ UNCHANGED <<variant, pc, exit_code, report, env, treeVars,
                   pos_panel_focus, pos_target_highlight,
                   pos_direction_highlight, termVars>>

\* Enter in STATE_POSITION_SELECT.  connected_displays[monitor_highlight]
\* is read past the end of the array when the Exit row is selected: the
\* process is killed or goes on with whatever name it finds there.
EnterPosition ==
    LET target == displays[position_target_displays[pos_target_highlight + 1]]
        direction == position_directions[pos_direction_highlight + 1]
    IN  IF monitor_highlight < connected_count
        THEN RunAndReparse(PositionCommand(SelectedDisplay.name, target.name,
                                           direction), <<>>)
        ELSE \/ Crash
             \/ RunAndReparse(PositionCommand(GarbageName, target.name,
                                              direction), <<>>)

\* Enter in STATE_RATE_SELECT.  refresh_rates[rate_highlight] is read through
\* a NULL pointer when the mode has no rate: the process is killed or goes
\* on with whatever value it finds there.
EnterRate ==
    IF rate_highlight < Len(SelectedMode.refresh_rates)
    THEN RunAndReparse(
             ModeCommand(SelectedDisplay, SelectedMode,
                         Fmt2(SelectedMode.refresh_rates[rate_highlight + 1].rate)),
             <<>>)
    ELSE \/ Crash
         \/ RunAndReparse(ModeCommand(SelectedDisplay, SelectedMode,
                                      GarbageRate), <<>>)

\* case 10: the Enter key
Enter ==
    /\ KeyReachesSwitch
    /\ ch' = "Enter"
    /\ IF state = STATE_MONITOR_SELECT
       THEN IF monitor_highlight = connected_count
            THEN ExitCleanly
            ELSE /\ EnterModeSelect
                 /\ command' = NoCommand /\ effects' = <<>>
                 /\ UNCHANGED <<variant, pc, exit_code, report, env, treeVars,
                                posVars, termVars>>
       ELSE IF state = STATE_MODE_SELECT /\ CanEnterRateSelect
       THEN /\ EnterRateSelect
            /\ command' = NoCommand /\ effects' = <<>>
            /\ UNCHANGED <<variant, pc, exit_code, report, env, treeVars,
                           posVars, termVars>>
       ELSE IF variant = 2 /\ state = STATE_POSITION_SELECT
       THEN EnterPosition
       ELSE IF state = STATE_RATE_SELECT
       THEN EnterRate
       ELSE NoChange

\* A key with no case in the switch.
OtherKey ==
    /\ KeyReachesSwitch
    /\ \E k \in OtherKeys : ch' = k
    /\ NoChange

\* case ERR (first variant): getch timed out after 100 ms.
Timeout ==
    /\ KeyReachesSwitch
    /\ variant = 1
    /\ ch' = "ERR"
    /\ NoChange

\* The first variant while the terminal is too small: draw_resize_message,
\* getch, continue; the key read is dropped.
KeyDropped ==
    /\ pc = "loop"
    /\ variant = 1
    /\ TooSmall
    /\ ch' = ch
    /\ NoChange

Next ==
    \/ Start \/ Quit \/ Toggle \/ Position \/ Resize \/ Up \/ Down \/ Tab
    \/ Right \/ Left \/ Enter \/ OtherKey \/ Timeout \/ KeyDropped

Spec == Init /\ [][Next]_vars

(***************************************************************************)
(* The loop of the first variant taken statement by statement, with        *)
(* handle_winch running between any two statements.  The keys are those    *)
(* that change no selection.                                               *)
(***************************************************************************)
uiVars == <<variant, pc, exit_code, report, env, treeVars, state, selVars,
            posVars, twin>>

InLoop(at) == pc = "loop" /\ variant = 1 /\ ip = at

\* A statement that leaves the flag and the size alone and goes to next.
Goes(next) ==
    /\ ip' = next
    /\ command' = NoCommand /\ effects' = <<>>
    /\ UNCHANGED <<uiVars, rows, cols, ch, resized_flag, iter_flag,
                   iter_cleared, unhandled>>

\* void handle_winch(int sig): resized_flag = 1.  signal() is called once
\* setup_display_data has succeeded.
handle_winch ==
    /\ pc = "loop" /\ variant = 1
    /\ resized_flag' = 1
    /\ unhandled' = TRUE
    /\ UNCHANGED <<uiVars, rows, cols, ch, command, effects, ip, iter_flag,
                   iter_cleared>>

\* getmaxyx(stdscr, rows, cols): the size is what the terminal library
\* gives.
GetMaxYX ==
    /\ InLoop("top")
    /\ \E sz \in TermSizes : rows' = sz[1] /\ cols' = sz[2]
    /\ ip' = "test"
    /\ iter_flag' = resized_flag /\ iter_cleared' = FALSE
    /\ command' = NoCommand /\ effects' = <<>>
    /\ UNCHANGED <<uiVars, ch, resized_flag, unhandled>>

\* The loop without the test of the flag.
TestFlag_Never ==
    /\ InLoop("test")
    /\ Goes("sizecheck")

\* if (resized_flag)
TestFlag ==
    /\ InLoop("test")
    /\ Goes(IF resized_flag # 0 THEN "resizeterm" ELSE "sizecheck")

\* resizeterm(rows, cols)
ResizeTerm ==
    /\ InLoop("resizeterm")
    /\ ip' = "clearflag"
    /\ unhandled' = FALSE
    /\ command' = NoCommand /\ effects' = <<"resizeterm">>
    /\ UNCHANGED <<uiVars, rows, cols, ch, resized_flag, iter_flag,
                   iter_cleared>>

\* resized_flag = 0
ClearFlag ==
    /\ InLoop("clearflag")
    /\ resized_flag' = 0
    /\ iter_cleared' = TRUE
    /\ ip' = "clear"
    /\ command' = NoCommand /\ effects' = <<>>
    /\ UNCHANGED <<uiVars, rows, cols, ch, iter_flag, unhandled>>

\* clear()
ClearScreen ==
    /\ InLoop("clear")
    /\ Goes("sizecheck")

\* if (rows < MIN_ROWS || cols < MIN_COLS)
SizeCheck ==
    /\ InLoop("sizecheck")
    /\ Goes(IF TooSmall THEN "message" ELSE "draw")

\* draw_resize_message(); getch(); continue;
Message ==
    /\ InLoop("message")
    /\ Goes("top")

\* clear() ... refresh(): the panels are drawn.
Draw ==
    /\ InLoop("draw")
    /\ Goes("getch")

\* getch() returns a key that changes nothing, or ERR.
GetchKey ==
    /\ InLoop("getch")
    /\ \E k \in OtherKeys \cup {"ERR"} : ch' = k
    /\ ip' = "top"
    /\ command' = NoCommand /\ effects' = <<>>
    /\ UNCHANGED <<uiVars, rows, cols, resized_flag, iter_flag, iter_cleared,
                   unhandled>>

\* getch() returns 'q'.
GetchQuit ==
    /\ InLoop("getch")
    /\ ch' = "q"
    /\ ExitCleanly

InitWinch == InitWith(NavReports, {1}, TermSizes)

NextWinch ==
    \/ Start \/ handle_winch \/ GetMaxYX \/ TestFlag \/ ResizeTerm
    \/ ClearFlag \/ ClearScreen \/ SizeCheck \/ Message \/ Draw
    \/ GetchKey \/ GetchQuit

SpecWinch == InitWinch /\ [][NextWinch]_vars

(***************************************************************************)
(* The two variants side by side on a terminal of the minimum size: from   *)
(* each state the first variant handles a key, then the second variant     *)
(* handles the same key from the same state.                               *)
(***************************************************************************)
\* What the two mains hold and have done: the locals, the tree, the tool's
\* report and the last command.
Snapshot ==
    [pc |-> pc, exit_code |-> exit_code, report |-> report, env |-> env,
     tree |-> treeVars, state |-> state, sel |-> selVars, pos |-> posVars,
     command |-> command, effects |-> effects]

\* The main of the given variant is put in the state snap.
Resume(v, snap) ==
    /\ variant' = v
    /\ pc' = snap.pc /\ exit_code' = snap.exit_code
    /\ report' = snap.report /\ env' = snap.env
    /\ displays' = snap.tree[1] /\ display_count' = snap.tree[2]
    /\ menu_items' = snap.tree[3] /\ num_items' = snap.tree[4]
    /\ connected_displays' = snap.tree[5] /\ connected_count' = snap.tree[6]
    /\ heap' = snap.tree[7]
    /\ state' = snap.state
    /\ monitor_highlight' = snap.sel[1] /\ mode_highlight' = snap.sel[2]
    /\ rate_highlight' = snap.sel[3] /\ monitor_scroll' = snap.sel[4]
    /\ mode_scroll' = snap.sel[5] /\ rate_scroll' = snap.sel[6]
    /\ pos_panel_focus' = snap.pos[1] /\ pos_target_highlight' = snap.pos[2]
    /\ pos_direction_highlight' = snap.pos[3]
    /\ position_target_displays' = snap.pos[4]
    /\ position_target_count' = snap.pos[5]
    /\ command' = snap.command /\ effects' = snap.effects
    /\ ch' = "none"
    /\ UNCHANGED <<rows, cols, winchVars>>

\* The keys both variants are compared on: j/k, h/l and the arrows, Enter, q.
TwinKey == Up \/ Down \/ Left \/ Right \/ Enter \/ Quit

\* The first variant is about to read a key.
TwinBegin ==
    /\ pc = "loop" /\ variant = 1 /\ twin.phase = "idle"
    /\ twin' = [phase |-> "first", pre |-> Snapshot]
    /\ Resume(1, Snapshot)

\* The first variant handles a key.
TwinFirst ==
    /\ twin.phase = "first" /\ ch = "none"
    /\ TwinKey

\* The second variant is put in the state the first one was in.
TwinSwap ==
    /\ twin.phase = "first" /\ ch # "none"
    /\ twin' = [phase |-> "second", pre |-> twin.pre, key |-> ch,
                post |-> Snapshot]
    /\ Resume(2, twin.pre)

\* The second variant handles the same key.
TwinSecond ==
    /\ twin.phase = "second" /\ ch = "none"
    /\ TwinKey
    /\ ch' = twin.key

\* Both have handled the key.
TwinCompared == twin.phase = "second" /\ ch # "none"

\* The first variant goes on from where it was.
TwinEnd ==
    /\ TwinCompared
    /\ twin' = NoTwin
    /\ Resume(1, twin.post)

InitTwin == InitWith(NavReports, {1}, {<<MIN_ROWS, MIN_COLS>>})

NextTwin ==
    \/ Start \/ TwinBegin \/ TwinFirst \/ TwinSwap \/ TwinSecond \/ TwinEnd

SpecTwin == InitTwin /\ [][NextTwin]_vars

(***************************************************************************)
(* The start of the program on every report of at most MaxLines lines:     *)
(* parse_xrandr_output and setup_display_data as functions of the report.  *)
(***************************************************************************)
InitParse == InitWith(Reports, {2}, {<<MIN_ROWS, MIN_COLS>>})

NextParse == Start

SpecParse == InitParse /\ [][NextParse]_vars

(***************************************************************************)
(* The program on a terminal whose size never changes.                     *)
(***************************************************************************)
NextFixed ==
    \/ Start \/ Quit \/ Toggle \/ Position \/ Up \/ Down \/ Tab
    \/ Right \/ Left \/ Enter \/ OtherKey \/ Timeout \/ KeyDropped

SpecFixed == Init /\ [][NextFixed]_vars

(***************************************************************************)
(* What a report describes, read off its line descriptors: one display per *)
(* connected header line, each mode line under the display of the header   *)
(* it follows, nothing under a disconnected header or after a blank line.  *)
(***************************************************************************)
RECURSIVE ExpectedFrom(_, _, _, _)
\* acc: the displays of lines 1..i-1; open: a display's context is open.
ExpectedFrom(rep, i, acc, open) ==
    IF i > Len(rep) THEN acc
    ELSE LET l == rep[i] IN
      IF l.k = "hdr" /\ l.conn
      THEN ExpectedFrom(rep, i + 1,
                        Append(acc, [name |-> l.name, modes |-> <<>>]), TRUE)
      ELSE IF l.k = "mode" /\ open
      THEN ExpectedFrom(rep, i + 1,
               [acc EXCEPT ![Len(acc)].modes =
                   Append(@, [width |-> l.w, height |-> l.h,
                              rates |-> [k \in 1..Len(l.rates) |->
                                            NormRate(l.rates[k].v, 2)]])],
               TRUE)
      ELSE ExpectedFrom(rep, i + 1, acc, FALSE)

\* The names, resolutions and rates of a parsed tree, in its order.
ParsedOrder(ds) ==
    [i \in 1..Len(ds) |->
        [name |-> ds[i].name,
         modes |-> [j \in 1..Len(ds[i].modes) |->
                      [width |-> ds[i].modes[j].width,
                       height |-> ds[i].modes[j].height,
                       rates |-> [k \in 1..Len(ds[i].modes[j].refresh_rates) |->
                                     ds[i].modes[j].refresh_rates[k].rate]]]]]

\* The header lines of a report, in order.
HeaderLines(rep) == SelectSeq(rep, LAMBDA l : l.k = "hdr")

\* The program has parsed the report, and nothing failed in the environment.
ParsedReport == pc # "start" /\ env = NoFault

\* C1: for every report made of header lines and mode lines, the parsed
\* tree lists the displays, each display's modes and each mode's rates in
\* the order of the report, every mode line under the display of the most
\* recent header line.
C1_SourceOrder ==
    (ParsedReport /\ \A i \in 1..Len(report) : report[i].k \in {"hdr", "mode"})
        => ParsedOrder(displays) = ExpectedFrom(report, 1, <<>>, FALSE)

\* C2: every disconnected header line makes one display record with
\* connected = false, zero geometry and no mode, so that there are as many
\* records as header lines.
C2_DisconnectedRecorded ==
    ParsedReport =>
        LET hs == HeaderLines(report)
        IN  /\ display_count = Len(hs)
            /\ Len(displays) = Len(hs)
            /\ \A i \in 1..Len(hs) :
                 ~hs[i].conn =>
                     displays[i] = [ZeroDisplay EXCEPT !.name = hs[i].name]

\* C10: when the tool ran and its report holds no header line, the parse
\* succeeds with no display: the result differs from that of a failed
\* launch, and the program does not end as on a parse error.
C10_EmptyReportIsSuccess ==
    (ParsedReport /\ HeaderLines(report) = <<>>)
        => /\ pc = "loop"
           /\ exit_code # 1
           /\ ParseXrandrOutput(TRUE, Render(report, 1), 0)
                # ParseXrandrOutput(FALSE, Render(report, 1), 0)

\* The step ran a command and the re-parse succeeded.
CommandStep == command' # NoCommand /\ pc' = "loop"

\* state = STATE_MONITOR_SELECT with the six cursors of the lists at 0,
\* after the step.
ListsReset ==
    /\ state' = STATE_MONITOR_SELECT
    /\ monitor_highlight' = 0 /\ monitor_scroll' = 0
    /\ mode_highlight' = 0 /\ mode_scroll' = 0
    /\ rate_highlight' = 0 /\ rate_scroll' = 0

C4_CommandFromTree ==
    [][command'.op = "--mode" =>
          /\ monitor_highlight < connected_count
          /\ mode_highlight < Len(SelectedDisplay.modes)
          /\ rate_highlight < Len(SelectedMode.refresh_rates)
          /\ command' =
               ModeCommand(SelectedDisplay, SelectedMode,
                   Fmt2(SelectedMode.refresh_rates[rate_highlight + 1].rate))
      ]_vars

\* C5: RateSelect is never active for a mode with no refresh rate.
C5_RateSelectHasRates ==
    (pc = "loop" /\ state = STATE_RATE_SELECT)
        => Len(SelectedMode.refresh_rates) >= 1

\* The connected projection without the entry the monitor selection is on.
ProjectionWithoutSelected ==
    [k \in 1..(connected_count - 1) |->
        connected_displays[IF k <= monitor_highlight THEN k ELSE k + 1]]

\* C6: 'p' enters PositionSelect only with more than one connected display,
\* and on entry the target list is the connected projection without the
\* selected entry, of length connected_count - 1, with both selections 0
\* and the focus on the target list.
C6_TargetsOnEntry ==
    [][(state = STATE_MONITOR_SELECT /\ state' = STATE_POSITION_SELECT
        /\ pc' = "loop") =>
          /\ connected_count > 1
          /\ position_target_count' = connected_count - 1
          /\ Len(position_target_displays') = connected_count - 1
          /\ position_target_displays' = ProjectionWithoutSelected
          /\ pos_target_highlight' = 0
          /\ pos_direction_highlight' = 0
          /\ pos_panel_focus' = POS_PANEL_TARGET]_vars

\* The number of items of the list the keys move in.
ActiveCount ==
    CASE state = STATE_MONITOR_SELECT -> num_items
      [] state = STATE_MODE_SELECT -> Len(SelectedDisplay.modes)
      [] state = STATE_RATE_SELECT ->
           IF Len(SelectedDisplay.modes) > 0
           THEN Len(SelectedMode.refresh_rates) ELSE 0
      [] state = STATE_POSITION_SELECT ->
           IF pos_panel_focus = POS_PANEL_TARGET THEN position_target_count
           ELSE position_direction_count

\* The selection of that list.
ActiveSelection ==
    CASE state = STATE_MONITOR_SELECT -> monitor_highlight
      [] state = STATE_MODE_SELECT -> mode_highlight
      [] state = STATE_RATE_SELECT -> rate_highlight
      [] state = STATE_POSITION_SELECT ->
           IF pos_panel_focus = POS_PANEL_TARGET THEN pos_target_highlight
           ELSE pos_direction_highlight

\* C7: in every list of n >= 1 items, down from n - 1 gives 0 and otherwise
\* adds 1, up from 0 gives n - 1 and otherwise subtracts 1.
C7_Wraparound ==
    [][/\ (Down /\ ActiveCount >= 1) =>
             ActiveSelection' = IF ActiveSelection = ActiveCount - 1 THEN 0
                                ELSE ActiveSelection + 1
       /\ (Up /\ ActiveCount >= 1) =>
             ActiveSelection' = IF ActiveSelection = 0 THEN ActiveCount - 1
                                ELSE ActiveSelection - 1]_vars

\* Down has wrapped from the last of two position targets to the first.
C7_Witness ==
    /\ pc = "loop" /\ variant = 2
    /\ ch = "KEY_DOWN"
    /\ state = STATE_POSITION_SELECT
    /\ pos_panel_focus = POS_PANEL_TARGET
    /\ position_target_count = 2
    /\ pos_target_highlight = 0

\* The selected row is inside the window of h rows.
Visible(highlight, scroll, h) ==
    0 <= scroll /\ scroll <= highlight /\ highlight < scroll + h

\* C8: with the terminal size fixed and every viewport height at least 1,
\* the selected row of the monitor, mode and rate list is inside the window
\* after any sequence of moves.
C8_SelectionVisible ==
    (pc = "loop" /\ monitor_view_height >= 1) =>
        /\ Visible(monitor_highlight, monitor_scroll, monitor_view_height)
        /\ Visible(mode_highlight, mode_scroll, right_panel_view_height)
        /\ Visible(rate_highlight, rate_scroll, right_panel_view_height)

\* Down has scrolled the monitor list on a terminal of two visible rows.
C8_Witness ==
    /\ pc = "loop"
    /\ ch = "KEY_DOWN"
    /\ state = STATE_MONITOR_SELECT
    /\ monitor_view_height = 2
    /\ monitor_highlight = 3
    /\ monitor_scroll = 2

\* C9: after every successful setup the connected projection holds the
\* connected displays and no other, in the order of the tree, its length is
\* their number, and the menu is their names followed by Exit.
C9_Projection ==
    pc = "loop" =>
        /\ connected_count =
             Cardinality({i \in 1..Len(displays) : displays[i].connected})
        /\ Len(connected_displays) = connected_count
        /\ \A k \in 1..connected_count :
             /\ connected_displays[k] \in 1..Len(displays)
             /\ displays[connected_displays[k]].connected
        /\ \A k, l \in 1..connected_count :
             k < l => connected_displays[k] < connected_displays[l]
        /\ num_items = connected_count + 1
        /\ Len(menu_items) = num_items
        /\ menu_items[num_items] = ExitItem
        /\ \A k \in 1..connected_count :
             menu_items[k] = displays[connected_displays[k]].name

\* A command has run and the setup after it found three connected displays.
C9_Witness ==
    /\ pc = "loop"
    /\ command.op = "--auto"
    /\ connected_count = 3
    /\ Len(displays) = 3

\* The number of lines of the report's text that grow the display array.
HeaderCount(rep) == ParseXrandrOutput(TRUE, Render(rep, 1), 0).display_count

\* C11: when popen fails, or realloc of the display array fails at any of
\* the report's header lines, parse_xrandr_output returns no display (NULL):
\* nothing accumulated before the failure reaches the caller, and the
\* program holds no tree afterwards.
C11_FailureDiscardsAll ==
    /\ ParseXrandrOutput(FALSE, Render(report, 1), 0).displays = <<>>
    /\ \A k \in 1..HeaderCount(report) :
          ParseXrandrOutput(TRUE, Render(report, 1), k).displays = <<>>
    /\ (pc # "start" /\ (~env.popen_ok \/ env.fail_at # 0)) =>
          /\ displays = <<>>
          /\ connected_displays = <<>>
          /\ menu_items = <<>>

\* The realloc for the second display failed after a display with a mode
\* had been accumulated.
C11_Witness ==
    /\ pc = "exited"
    /\ env.fail_at = 2
    /\ Len(report) = 3
    /\ report[1].k = "hdr" /\ report[1].conn
    /\ report[2].k = "mode" /\ report[2].pad = 0
    /\ report[3].k = "hdr" /\ report[3].conn


\* The step is 'q'/'Q', or Enter on the Exit row of the monitor list.
QuitKey ==
    \/ ch' = "q"
    \/ /\ ch' = "Enter"
       /\ state = STATE_MONITOR_SELECT
       /\ monitor_highlight = connected_count

\* The setup_display_data of the step failed: the first one of main, or the
\* one after a command.
SetupFailed ==
    \/ /\ pc = "start"
       /\ ~SetupDisplayData(env'.popen_ok, Render(report, 1), env'.fail_at,
                            env'.malloc_ok).ok
    \/ /\ pc = "loop"
       /\ command' # NoCommand
       /\ ~NavSetup[report'][env'].ok

\* C12: main returns 0 only on 'q'/'Q' or Enter on the Exit row; when the
\* first setup or the setup after a command fails, it returns a non-zero
\* code in that same step; and once it has returned no key is interpreted
\* and nothing is parsed again.
C12_ExitCodes ==
    [][/\ (pc # "exited" /\ pc' = "exited" /\ exit_code' = 0) => QuitKey
       /\ SetupFailed => (pc' = "exited" /\ exit_code' # 0 /\ exit_code' # -1)
       /\ pc = "exited" => UNCHANGED vars]_vars

\* The re-parse after a position command failed and main returned 1.
C12_Witness ==
    /\ pc = "exited"
    /\ exit_code = 1
    /\ command.op = "--position"
    /\ env # NoFault


\* C13: whenever the main loop waits for a key, in every navigation state
\* and on a terminal of any size, 'q'/'Q' can be pressed and ends the program
\* cleanly (main returns 0) without running a command.
C13_QuitAlways ==
    pc = "loop" =>
        ENABLED (Quit /\ pc' = "exited" /\ exit_code' = 0
                      /\ command' = NoCommand)


\* C14: a step that issues a command tears the UI down, runs the command,
\* waits for the user, restores the UI, frees the old tree and parses the
\* report anew, in this order and within the handling of one key; nothing
\* else does any of this; and the tree changes only by being replaced by
\* the parse of the report (or dropped when the process ends).
C14_CommandHandOff ==
    [][/\ command' # NoCommand =>
             /\ effects' = <<"endwin", "system", "getchar", "reset_prog_mode",
                             "cleanup_display_data", "setup_display_data">>
             /\ ch' \in {"o", "Enter"}
             /\ displays' = NavSetup[report'][env'].displays
       /\ command' = NoCommand => effects' = <<>>
       /\ displays' # displays =>
             \/ pc = "start"
             \/ command' # NoCommand
             \/ (pc' \in {"exited", "crashed"} /\ displays' = <<>>)]_vars

\* A --mode command has run and the report was parsed again into a tree.
C14_Witness ==
    /\ pc = "loop"
    /\ ch = "Enter"
    /\ command.op = "--mode"
    /\ Len(effects) = 6
    /\ displays # <<>>


(***************************************************************************)
(* The start of the program on a display with one mode line of at most two *)
(* refresh rates, each followed by every run of at most MaxMarks markers   *)
(* and blanks.                                                             *)
(***************************************************************************)
MaxMarks == 2

MarkChars == {"*", "+", " "}
MarkRuns == UNION {[1..n -> MarkChars] : n \in 0..MaxMarks}

RateRuns ==
    {<<>>} \cup {<<Rt(6000, m)>> : m \in MarkRuns}
           \cup {<<Rt(6000, m[1]), Rt(5994, m[2])>> : m \in MarkRuns \X MarkRuns}

MarkerReports ==
    {<<Hdr(<<"A">>, TRUE, FALSE, <<8, 6, 0, 0>>), ModeLn(8, 6, rs, 0)>> :
        rs \in RateRuns}

InitMarkers == InitWith(MarkerReports, {2}, {<<MIN_ROWS, MIN_COLS>>})

NextMarkers == Start

SpecMarkers == InitMarkers /\ [][NextMarkers]_vars

\* The marker c stands in the run that follows a rate.
HasMark(marks, c) == \E i \in 1..Len(marks) : marks[i] = c

\* C15: every rate of the line is parsed with is_current set exactly when a
\* '*' follows it and is_preferred exactly when a '+' follows it, whatever
\* the order and the number of the markers, and whatever the markers of the
\* other rate of the line.
C15_Markers ==
    pc = "loop" =>
        LET rs == report[2].rates
            parsed == displays[1].modes[1].refresh_rates
        IN  /\ Len(parsed) = Len(rs)
            /\ \A k \in 1..Len(rs) :
                 /\ parsed[k].rate = NormRate(rs[k].v, 2)
                 /\ parsed[k].is_current = HasMark(rs[k].marks, "*")
                 /\ parsed[k].is_preferred = HasMark(rs[k].marks, "+")

\* "60.00+*  59.94**" has been parsed: both flags on the first rate, the
\* current flag alone on the second.
C15_Witness ==
    /\ pc = "loop"
    /\ report[2].rates = <<Rt(6000, <<"+", "*">>), Rt(5994, <<"*", "*">>)>>
    /\ displays[1].modes[1].refresh_rates[1].is_current
    /\ displays[1].modes[1].refresh_rates[1].is_preferred
    /\ displays[1].modes[1].refresh_rates[2].is_current
    /\ ~displays[1].modes[1].refresh_rates[2].is_preferred


(***************************************************************************)
(* The start of the program on one connected header line, with and without *)
(* "primary", a geometry and the text xrandr prints after it, alone or     *)
(* followed by a mode line.                                                *)
(***************************************************************************)
HeaderNames == {<<"A">>, <<"e", "D", "P", "-", "1">>, <<"H", "D", "M", "I", "1">>}
HeaderGeoms == {<<>>, <<8, 6, 0, 0>>, <<1920, 1080, 1366, 20>>}

HeaderSet ==
    {Hdr(n, TRUE, p, g) : n \in HeaderNames, p \in BOOLEAN, g \in HeaderGeoms}
        \cup {HdrX(n, p, g) : n \in HeaderNames, p \in BOOLEAN,
                              g \in HeaderGeoms}

HeaderReports ==
    {<<h>> : h \in HeaderSet}
        \cup {<<h, ModeLn(8, 6, <<Rt(6000, <<"*">>)>>, 0)>> : h \in HeaderSet}

InitHeaders == InitWith(HeaderReports, {2}, {<<MIN_ROWS, MIN_COLS>>})

NextHeaders == Start

SpecHeaders == InitHeaders /\ [][NextHeaders]_vars

C17_OtherLineCloses ==
    (ParsedReport /\ \A i \in 1..Len(report) : report[i].pad = 0)
        => ParsedOrder(displays) = ExpectedFrom(report, 1, <<>>, FALSE)


\* C18: 'o' in MonitorSelect on a display of the list runs one command for
\* that display: --off when the tree gives it a resolution (width > 0),
\* --auto otherwise.
C18_TogglePower ==
    [][(pc = "loop" /\ variant = 2 /\ ch' = "o"
        /\ state = STATE_MONITOR_SELECT /\ monitor_highlight < connected_count)
          => command' =
               [NoCommand EXCEPT
                  !.op = IF SelectedDisplay.width > 0 THEN "--off"
                         ELSE "--auto",
                  !.output = SelectedDisplay.name]]_vars

\* 'o' on the active display A has run --off, and the program goes on.
C18_Witness ==
    /\ pc = "loop"
    /\ ch = "o"
    /\ command.op = "--off"
    /\ command.output = <<"A">>


\* C19: whenever a position command is issued, the monitor selection is on
\* a display of the connected projection, which is the command's output;
\* the target is the entry of the target list at the target selection and
\* is another display; the direction is the entry of position_directions
\* at the direction selection.
C19_PositionCommand ==
    [][command'.op = "--position" =>
          /\ monitor_highlight < connected_count
          /\ pos_target_highlight < Len(position_target_displays)
          /\ pos_direction_highlight < position_direction_count
          /\ position_target_displays[pos_target_highlight + 1]
               # connected_displays[monitor_highlight + 1]
          /\ command' =
               PositionCommand(
                   SelectedDisplay.name,
                   displays[position_target_displays[
                                pos_target_highlight + 1]].name,
                   position_directions[pos_direction_highlight + 1])
      ]_vars


\* C20: in MonitorSelect, right/'l' and Enter on a display of the list move
\* to ModeSelect with the mode and rate selection and scroll at 0, leave the
\* monitor selection alone and run no command; Enter on the Exit row ends
\* the program with code 0; right/'l' on the Exit row changes nothing.
C20_MonitorSelectKeys ==
    [][((Right \/ Enter) /\ state = STATE_MONITOR_SELECT) =>
          IF monitor_highlight < connected_count
          THEN /\ state' = STATE_MODE_SELECT
               /\ mode_highlight' = 0 /\ mode_scroll' = 0
               /\ rate_highlight' = 0 /\ rate_scroll' = 0
               /\ command' = NoCommand /\ effects' = <<>>
               /\ pc' = "loop"
               /\ UNCHANGED <<monitor_highlight, monitor_scroll, treeVars,
                              posVars>>
          ELSE IF ch' = "Enter"
          THEN /\ pc' = "exited" /\ exit_code' = 0
               /\ command' = NoCommand /\ effects' = <<>>
          ELSE UNCHANGED <<pc, exit_code, state, selVars, posVars, treeVars,
                           command, effects>>
      ]_vars

\* Right on the second display of the list has opened its mode list.
C20_Witness ==
    /\ pc = "loop"
    /\ ch = "KEY_RIGHT"
    /\ state = STATE_MODE_SELECT
    /\ monitor_highlight = 1
    /\ mode_highlight = 0


\* C21: left/'h' goes from RateSelect to ModeSelect with the rate selection
\* and scroll at 0, from ModeSelect to MonitorSelect with the mode selection
\* and scroll at 0, from PositionSelect to MonitorSelect with the target
\* list gone; in MonitorSelect it changes nothing; it runs no command and
\* parses nothing.
C21_Left ==
    [][Left =>
          /\ command' = NoCommand /\ effects' = <<>>
          /\ UNCHANGED <<pc, exit_code, report, env, treeVars>>
          /\ CASE state = STATE_RATE_SELECT ->
                    /\ state' = STATE_MODE_SELECT
                    /\ rate_highlight' = 0 /\ rate_scroll' = 0
                    /\ UNCHANGED <<monitor_highlight, monitor_scroll,
                                   mode_highlight, mode_scroll>>
               [] state = STATE_MODE_SELECT ->
                    /\ state' = STATE_MONITOR_SELECT
                    /\ mode_highlight' = 0 /\ mode_scroll' = 0
                    /\ UNCHANGED <<monitor_highlight, monitor_scroll>>
               [] state = STATE_POSITION_SELECT ->
                    /\ state' = STATE_MONITOR_SELECT
                    /\ position_target_displays' = <<>>
                    /\ position_target_count' = 0
                    /\ UNCHANGED selVars
               [] state = STATE_MONITOR_SELECT ->
                    UNCHANGED <<state, selVars, posVars>>
      ]_vars

\* Left has come back from the rate list of the second mode.
C21_Witness ==
    /\ pc = "loop"
    /\ ch = "KEY_LEFT"
    /\ state = STATE_MODE_SELECT
    /\ mode_highlight = 1
    /\ rate_highlight = 0

\* The other sub-panel of the position panel.
OtherFocus(f) ==
    IF f = POS_PANEL_TARGET THEN POS_PANEL_DIRECTION ELSE POS_PANEL_TARGET

\* C22: Tab in PositionSelect moves the focus to the other of the two
\* lists (so that two Tabs restore it) and leaves the state, both
\* selections and the target list alone; Tab in another state changes
\* nothing.
C22_Tab ==
    [][(Tab \/ (OtherKey /\ ch' = "Tab")) =>
          /\ command' = NoCommand /\ effects' = <<>>
          /\ UNCHANGED <<pc, exit_code, report, env, treeVars, state, selVars,
                         pos_target_highlight, pos_direction_highlight,
                         position_target_displays, position_target_count>>
          /\ pos_panel_focus' =
               IF state = STATE_POSITION_SELECT
               THEN OtherFocus(pos_panel_focus) ELSE pos_panel_focus
          /\ OtherFocus(OtherFocus(pos_panel_focus)) = pos_panel_focus
      ]_vars

\* Tab has moved the focus back to the target list after a move in the
\* direction list.
C22_Witness ==
    /\ pc = "loop"
    /\ ch = "Tab"
    /\ state = STATE_POSITION_SELECT
    /\ pos_panel_focus = POS_PANEL_TARGET
    /\ pos_direction_highlight = 1


\* C23: 'j'/'k' in a panel whose list is empty (a display without modes, a
\* mode without rates, a position panel without targets) change no
\* selection and no scroll offset.
C23_EmptyListMove ==
    [][((Up \/ Down) /\ ActiveCount = 0) =>
          UNCHANGED <<state, selVars, posVars, treeVars, pc>>]_vars

\* 'k' has been pressed in the rate list of a mode that has no rate.
C23_Witness ==
    /\ pc = "loop"
    /\ ch = "KEY_UP"
    /\ state = STATE_RATE_SELECT
    /\ Len(SelectedMode.refresh_rates) = 0
    /\ rate_highlight = 0


\* The step is a key that has no transition in the state it is pressed in.
KeyWithoutTransition ==
    \/ (Toggle \/ Position \/ (OtherKey /\ ch' \in {"o", "p"}))
          /\ state # STATE_MONITOR_SELECT
    \/ Toggle /\ state = STATE_MONITOR_SELECT
              /\ monitor_highlight >= connected_count
    \/ Position /\ state = STATE_MONITOR_SELECT /\ connected_count <= 1
    \/ Right /\ state \in {STATE_RATE_SELECT, STATE_POSITION_SELECT}
    \/ (Right \/ Enter) /\ state = STATE_MODE_SELECT
                         /\ Len(SelectedDisplay.modes) = 0

\* C24: a key without a transition in the current state leaves the state,
\* every selection and scroll offset, the position panel with its target
\* list and the tree as they are, and runs no command.
C24_BlockedKeys ==
    [][KeyWithoutTransition =>
          /\ command' = NoCommand /\ effects' = <<>>
          /\ UNCHANGED <<pc, exit_code, report, env, treeVars, state, selVars,
                         posVars>>]_vars

\* Enter has been pressed in the mode list of a display without modes.
C24_Witness ==
    /\ pc = "loop"
    /\ ch = "Enter"
    /\ state = STATE_MODE_SELECT
    /\ Len(SelectedDisplay.modes) = 0


\* C25: whenever the state is ModeSelect, RateSelect or PositionSelect the
\* monitor selection is on a display of the connected projection, not on
\* the Exit row, and no command is issued with the selection on the Exit
\* row.
C25_SubPanelHasDisplay ==
    [][/\ (pc' = "loop" /\ state' # STATE_MONITOR_SELECT) =>
             monitor_highlight' < connected_count'
       /\ command' # NoCommand => monitor_highlight < connected_count]_vars


(***************************************************************************)
(* The start of the program on a display with one mode line of at most     *)
(* MaxTokens tokens, numbers and others.                                   *)
(***************************************************************************)
MaxTokens == 3

Tokens ==
    { Rt(6000, <<>>), Rt(5994, <<"*">>),
      Rt(0 - 1, <<"a", "b", "c">>), Rt(0 - 1, <<"i">>),
      Rt(0 - 1, <<"n", "a", "n">>), Rt(0 - 1, <<"i", "n", "f">>) }

TokenReports ==
    {<<Hdr(<<"A">>, TRUE, FALSE, <<8, 6, 0, 0>>), ModeLn(8, 6, ts, 0)>> :
        ts \in UNION {[1..n -> Tokens] : n \in 0..MaxTokens}}

InitTokens == InitWith(TokenReports, {2}, {<<MIN_ROWS, MIN_COLS>>})

NextTokens == Start

SpecTokens == InitTokens /\ [][NextTokens]_vars

\* The number of tokens of ts before the first one that is no decimal
\* number.
NumberPrefix(ts) ==
    IF \A k \in 1..Len(ts) : ts[k].v >= 0 THEN Len(ts)
    ELSE (CHOOSE k \in 1..Len(ts) :
              ts[k].v < 0 /\ \A j \in 1..(k - 1) : ts[j].v >= 0) - 1

\* C26: the rates of a mode line are the numbers before the first token
\* that is no decimal number, in order; no token after it adds a rate; the
\* parse succeeds, and the mode is appended to the display even with no
\* rate.
C26_RateScanStops ==
    (pc # "start" /\ env = NoFault) =>
        /\ pc = "loop"
        /\ Len(displays[1].modes) = 1
        /\ displays[1].modes[1].width = 8 /\ displays[1].modes[1].height = 6
        /\ LET ts == report[2].rates
               parsed == displays[1].modes[1].refresh_rates
           IN  /\ Len(parsed) = NumberPrefix(ts)
               /\ \A k \in 1..NumberPrefix(ts) :
                    parsed[k].rate = NormRate(ts[k].v, 2)


(***************************************************************************)
(* The lines of the tool's output as text: each ends at its newline,       *)
(* whatever its length.                                                    *)
(***************************************************************************)
LineEnd(text, pos) ==
    CHOOSE j \in pos..Len(text) :
        /\ (j = Len(text) \/ text[j] = "\n")
        /\ \A k \in pos..(j - 1) : text[k] # "\n"

RECURSIVE WholeLines(_, _)
WholeLines(text, pos) ==
    IF pos > Len(text) THEN <<>>
    ELSE <<SubSeq(text, pos, LineEnd(text, pos))>>
             \o WholeLines(text, LineEnd(text, pos) + 1)

\* The tree the parser's loop builds from the whole lines of a report.
ParsedWhole(rep) ==
    Returned(ParseLines([displays |-> <<>>, display_count |-> 0,
                         cur |-> 0, failed |-> FALSE],
                        WholeLines(Render(rep, 1), 1), 1, 0)).displays

\* C27: a line of the report longer than the parser's line buffer is parsed
\* as one line: the parsed tree is the tree obtained from the whole lines,
\* and the part of the line beyond the buffer is not taken as a line.
C27_LongLineAsOne ==
    ParsedReport => displays = ParsedWhole(report)


(***************************************************************************)
(* The start of the program on a report whose first header line has a name *)
(* around the size of the name field.                                      *)
(***************************************************************************)
NameOf(n) == [i \in 1..n |-> "N"]

NameLens ==
    { 1, NameFieldSize - 1, NameFieldSize, NameFieldSize + 1,
      NameFieldSize + IntSize, NameFieldSize + IntSize + 1,
      NameFieldSize + 2 * IntSize }

NameHeaders ==
    {Hdr(NameOf(n), TRUE, p, g) :
        n \in NameLens, p \in BOOLEAN, g \in {<<>>, <<8, 6, 0, 0>>}}

NameReports ==
    {<<h>> : h \in NameHeaders}
        \cup {<<h, l>> : h \in NameHeaders,
                         l \in {ModeLn(8, 6, <<Rt(6000, <<"*">>)>>, 0),
                                Hdr(<<"B">>, TRUE, FALSE, <<4, 3, 8, 0>>)}}

InitNames == InitWith(NameReports, {2}, {<<MIN_ROWS, MIN_COLS>>})

NextNames == Start

SpecNames == InitNames /\ [][NextNames]_vars

\* C28: the name stored for a header line has at most 31 characters:
\* nothing is written past the 32 bytes of the name field.
C28_NameFits ==
    \A i \in 1..Len(displays) : Len(displays[i].name) <= NameFieldSize - 1


\* C29: handle_winch does nothing but set resized_flag; the flag goes back
\* to zero in the loop's own statement only; and when the flag is set at the
\* top of an iteration of the loop, the iteration has cleared it by the time
\* it draws.
C29_FlagHandOff ==
    [][/\ handle_winch =>
             /\ resized_flag' = 1
             /\ UNCHANGED <<uiVars, rows, cols, ch, command, effects, ip>>
       /\ (resized_flag # 0 /\ resized_flag' = 0) => ClearFlag
       /\ (ip' \in {"draw", "message"} /\ iter_flag' # 0) => iter_cleared'
      ]_vars

C29_Witness ==
    /\ pc = "loop" /\ ip = "draw"
    /\ iter_flag = 1 /\ iter_cleared /\ resized_flag = 0

\* C30: no notification is lost: once handle_winch has run, either the flag
\* is still set or resizeterm has run since.
C30_NoLostNotification == unhandled => resized_flag # 0


\* C31: the position target list is allocated exactly while the state is
\* PositionSelect: every way out of the panel releases it, it is never a
\* pointer to a freed block (so it is neither freed twice nor read after
\* its release), a step that replaces the tree leaves no list, and its
\* entries are displays of the current connected projection.
C31_TargetListLifetime ==
    [][pc' = "loop" =>
         /\ (position_target_displays' # <<>>)
               <=> (state' = STATE_POSITION_SELECT)
         /\ position_target_displays' # Dangling
         /\ command' # NoCommand => position_target_displays' = <<>>
         /\ \A i \in 1..Len(position_target_displays') :
               \E j \in 1..Len(connected_displays') :
                   position_target_displays'[i] = connected_displays'[j]
      ]_vars

C31_Witness ==
    /\ pc = "loop" /\ state = STATE_POSITION_SELECT /\ ch = "p"
    /\ Len(position_target_displays) = 2 /\ position_target_count = 2


\* C32: the cursors are within their lists: the monitor selection is a row
\* of the navigation list; in ModeSelect and RateSelect the mode selection
\* is a mode of the selected display when it has any; in RateSelect the
\* rate selection is a rate of the selected mode when it has any; in
\* PositionSelect the target selection is below the target count and the
\* direction selection below 5.
C32_CursorsInBounds ==
    pc = "loop" =>
        /\ 0 <= monitor_highlight /\ monitor_highlight < num_items
        /\ state \in {STATE_MODE_SELECT, STATE_RATE_SELECT} =>
              /\ monitor_highlight < connected_count
              /\ 0 <= mode_highlight
              /\ Len(SelectedDisplay.modes) > 0 =>
                    mode_highlight < Len(SelectedDisplay.modes)
        /\ (state = STATE_RATE_SELECT /\ Len(SelectedDisplay.modes) > 0) =>
              /\ 0 <= rate_highlight
              /\ Len(SelectedMode.refresh_rates) > 0 =>
                    rate_highlight < Len(SelectedMode.refresh_rates)
        /\ state = STATE_POSITION_SELECT =>
              /\ 0 <= pos_target_highlight
              /\ pos_target_highlight < position_target_count
              /\ 0 <= pos_direction_highlight
              /\ pos_direction_highlight < 5

C32_Witness ==
    /\ pc = "loop" /\ state = STATE_RATE_SELECT /\ ch = "KEY_UP"
    /\ Len(SelectedMode.refresh_rates) > 1
    /\ rate_highlight = Len(SelectedMode.refresh_rates) - 1


\* main has returned; exit(1) in case 'p' ends the process without a
\* return.
MainReturned == pc = "exited" /\ ch # "p"

\* C33: one display tree is live at a time: while the loop runs the pointer
\* displays points to the one tree allocated and not freed, so that no
\* handler and no drawing reads a freed tree, menu or projection; no tree
\* is freed twice; and once main has returned every tree has been freed.
C33_OneLiveTree ==
    /\ ~heap.twice
    /\ pc = "loop" => (heap.trees = 1 /\ heap.ptr = "live")
    /\ MainReturned => heap.trees = 0

C33_Witness ==
    /\ pc = "loop" /\ command # NoCommand
    /\ heap.trees = 1 /\ heap.ptr = "live"


\* C34: after a successful setup every record of the tree is connected, the
\* connected count is the display count and at least 1, and the navigation
\* list has at least two rows.
C34_AllConnected ==
    pc = "loop" =>
        /\ \A i \in 1..Len(displays) : displays[i].connected
        /\ connected_count = display_count
        /\ connected_count >= 1
        /\ num_items >= 2


\* The number of panels between a state and MonitorSelect.
Depth(st) ==
    CASE st = STATE_MONITOR_SELECT -> 0
      [] st = STATE_RATE_SELECT -> 2
      [] OTHER -> 1

\* A press of left/'h' that runs no command and ends one panel nearer to
\* MonitorSelect.
LeftGoesBack ==
    /\ Left
    /\ command' = NoCommand
    /\ pc' = "loop"
    /\ Depth(state') = (IF Depth(state) = 0 THEN 0 ELSE Depth(state) - 1)

\* C35: in every state of the loop outside MonitorSelect a press of
\* left/'h' takes effect, runs no command and ends one panel nearer to
\* MonitorSelect, which is at most two panels away: no state of the loop is
\* a dead end.
C35_BackToMonitorSelect ==
    (pc = "loop" /\ state # STATE_MONITOR_SELECT) => ENABLED LeftGoesBack


\* C36: a step that enters or leaves a sub-panel without a command keeps
\* the monitor selection and the monitor scroll, and the step from
\* RateSelect back to ModeSelect keeps the mode selection and the mode
\* scroll.
C36_SubPanelFrame ==
    [][(pc = "loop" /\ pc' = "loop" /\ command' = NoCommand
          /\ state' # state) =>
            /\ UNCHANGED <<monitor_highlight, monitor_scroll>>
            /\ (state = STATE_RATE_SELECT /\ state' = STATE_MODE_SELECT) =>
                  UNCHANGED <<mode_highlight, mode_scroll>>
      ]_vars

\* Left has come back from the rate list of the third display.
C36_Witness ==
    /\ pc = "loop" /\ ch = "KEY_LEFT" /\ state = STATE_MODE_SELECT
    /\ monitor_highlight = 2 /\ mode_highlight = 0


\* C37: in PositionSelect 'j'/'k' change nothing but the selection of the
\* sub-list that has the focus: the other selection, the focus, the monitor
\* selection, the target list and the state stay as they are.
C37_PositionMoveFrame ==
    [][((Up \/ Down) /\ state = STATE_POSITION_SELECT) =>
          /\ command' = NoCommand
          /\ UNCHANGED <<pc, state, selVars, treeVars, pos_panel_focus,
                         position_target_displays, position_target_count>>
          /\ pos_panel_focus = POS_PANEL_TARGET =>
                UNCHANGED pos_direction_highlight
          /\ pos_panel_focus # POS_PANEL_TARGET =>
                UNCHANGED pos_target_highlight
      ]_vars

C37_Witness ==
    /\ pc = "loop" /\ state = STATE_POSITION_SELECT /\ ch = "KEY_DOWN"
    /\ pos_panel_focus # POS_PANEL_TARGET
    /\ pos_direction_highlight = 1 /\ pos_target_highlight = 1


=============================================================================
